---- MODULE Spec2Model ----
(***************************************************************************)
(* Model of the LiveCue processing pipeline (electron/ProcessingHelper.ts  *)
(* and the IPC handlers that drive it).                                     *)
(*                                                                         *)
(* Scope of the model: the lifetime of one main window (getMainWindow()    *)
(* returns a live window), suspension points at the screenshot reads and   *)
(* at the provider calls, and a configuration whose loadConfig() succeeds  *)
(* except inside initializeAIClient, where a throwing load is an input.    *)
(* The settings are saved with another provider only while no call is      *)
(* suspended (AllIdle); the key may change at any time.                    *)
(*                                                                         *)
(* The pure functions of the helpers (parsing of the extraction and        *)
(* solution responses, normalization of the complexities, the conversation *)
(* context of the extraction prompt) are operators on texts; ParserSpec    *)
(* applies each of them to every input of a bounded set.                   *)
(***************************************************************************)
EXTENDS Naturals, Sequences, FiniteSets, TLC

\* Number of processScreenshots calls that may be suspended at the same time.
MaxCycles == 2

Cycles == 1..MaxCycles
Null == 0
Providers == {"openai", "gemini", "anthropic"}

\* The screenshot files of the model: one taken in each view.
MainFile == "main.png"
ExtraFile == "extra.png"
Files == {MainFile, ExtraFile}

VARIABLES
    apiProvider,        \* config.apiProvider
    apiKey,             \* TRUE iff config.apiKey is non-empty
    openaiClient,       \* TRUE iff this.openaiClient is set
    geminiApiKey,       \* TRUE iff this.geminiApiKey is set
    anthropicClient,    \* TRUE iff this.anthropicClient is set
    view,               \* deps.getView()
    problemInfo,        \* deps.getProblemInfo(): "null", "parsed" or "synthesized"
    hasDebugged,        \* deps.getHasDebugged()
    screenshotQueue,    \* screenshotHelper.getScreenshotQueue()
    extraScreenshotQueue, \* screenshotHelper.getExtraScreenshotQueue()
    currentProcessingAbortController,      \* Null or the cycle whose controller it holds
    currentExtraProcessingAbortController, \* Null or the cycle whose controller it holds
    pc,                 \* per cycle: where the call is suspended
    hasMsgs,            \* per cycle: messages argument is a non-empty array
    callProvider,       \* per cycle: provider of the request in flight
    aborted,            \* per cycle: its AbortController's signal is aborted
    paths,              \* per cycle: files being read, then the screenshots read
    log,                \* per cycle: notifications sent so far by the call
    returned,           \* the call that has just returned, before its caller resumes
    parseInput,         \* a text or message list handed to one of the pure functions
    parseResult,        \* what the function made of it
    invokeHandlers,     \* ipcMain: the channels that have a handler
    invoked,            \* the IPC invocation (or initialization) that ran last
    state,              \* ConversationsProvider: the state of the last render
    pendingState,       \* the same after the setState updaters queued since
    uuid,               \* number of ids uuidv4() has handed out
    solutionData,       \* Solutions page: solutionData is set (truthy)
    solutionSteps,      \* Solutions page: length of solutionSteps || []
    currentStepIndex,   \* SolutionSection: currentStepIndex
    showCompleteSolution \* SolutionSection: showCompleteSolution

vars == <<apiProvider, apiKey, openaiClient, geminiApiKey, anthropicClient,
          view, problemInfo, hasDebugged, screenshotQueue, extraScreenshotQueue,
          currentProcessingAbortController, currentExtraProcessingAbortController,
          pc, hasMsgs, callProvider, aborted, paths, log, returned,
          parseInput, parseResult, invokeHandlers, invoked,
          state, pendingState, uuid,
          solutionData, solutionSteps, currentStepIndex, showCompleteSolution>>

configVars == <<apiProvider, apiKey>>
clientVars == <<openaiClient, geminiApiKey, anthropicClient>>
queueVars == <<screenshotQueue, extraScreenshotQueue>>
handleVars == <<currentProcessingAbortController, currentExtraProcessingAbortController>>
cycleVars == <<pc, hasMsgs, callProvider, aborted, paths, log>>
parseVars == <<parseInput, parseResult>>
ipcVars == <<invokeHandlers, invoked>>
storeVars == <<state, pendingState, uuid>>
navVars == <<solutionData, solutionSteps, currentStepIndex, showCompleteSolution>>
rendererVars == <<storeVars, navVars>>
\* what the processing helper does not touch
otherVars == <<parseVars, ipcVars, rendererVars>>

----------------------------------------------------------------------------
\* Notifications (webContents.send)

Event(ev, msg) == [ev |-> ev, msg |-> msg, progress |-> 0]
StatusWithStaleProgress(p) == [ev |-> "processing-status", msg |-> "", progress |-> 20]

Status(p) == [ev |-> "processing-status", msg |-> "", progress |-> p]

\* The record of a call that has returned: which operation, what it sent, whether
\* it succeeded, what made it fail ("" when nothing did), and how many times it
\* ran initializeAIClient.
Call(op, lg, ok, cause, n) ==
    [op |-> op, log |-> lg, success |-> ok, cause |-> cause, reinits |-> n]
NoCall == Call("none", <<>>, FALSE, "", 0)

----------------------------------------------------------------------------
\* Message texts.  A message is named in the notifications and spelled here as
\* its sequence of words, so that String.includes is computed, not assumed.
\* (Words are split so that every searched substring is a run of whole words.)

MsgText(m) ==
    CASE m = "MsgOpenAINotConfiguredOrInvalid" ->
        <<"OpenAI", "API", "key", "not", "configured", "or", "invalid.", "Please", "check", "your", "settings.">>
      [] m = "MsgParseFailed" ->
        <<"Failed", "to", "parse", "problem", "information.", "Please", "try", "again", "or", "use", "clearer", "screenshots.">>
      [] m = "MsgGeminiNotConfigured" ->
        <<"Gemini", "API", "key", "not", "configured.", "Please", "check", "your", "settings.">>
      [] m = "MsgGeminiExtractFailed" ->
        <<"Failed", "to", "process", "with", "Gemini", "API.", "Please", "check", "your", "API", "key", "or", "try", "again", "later.">>
      [] m = "MsgAnthropicNotConfigured" ->
        <<"Anthropic", "API", "key", "not", "configured.", "Please", "check", "your", "settings.">>
      [] m = "MsgClaudeRateLimit" ->
        <<"Claude", "API", "rate", "limit", "exceeded.", "Please", "wait", "a", "few", "minutes", "before", "trying", "again.">>
      [] m = "MsgClaudeTooLarge" ->
        <<"Your", "screenshots", "contain", "too", "much", "information", "for", "Claude", "to", "process.", "Switch", "to", "OpenAI", "or", "Gemini", "in", "settings", "which", "can", "handle", "larger", "inputs.">>
      [] m = "MsgAnthropicExtractFailed" ->
        <<"Failed", "to", "process", "with", "Anthropic", "API.", "Please", "check", "your", "API", "key", "or", "try", "again", "later.">>
      [] m = "MsgCanceled" ->
        <<"Processing", "was", "canceled", "by", "the", "user.">>
      [] m = "MsgInvalidOpenAIKey" ->
        <<"Invalid", "OpenAI", "API", "key.", "Please", "check", "your", "settings.">>
      [] m = "MsgOpenAIRateLimit" ->
        <<"OpenAI", "API", "rate", "limit", "exceeded", "or", "insufficient", "credits.", "Please", "try", "again", "later.">>
      [] m = "MsgOpenAIServerError" ->
        <<"OpenAI", "server", "error.", "Please", "try", "again", "later.">>
      [] m = "MsgProcessFallback" ->
        <<"Failed", "to", "process", "screenshots.", "Please", "try", "again.">>
      [] m = "MsgOpenAINotConfigured" ->
        <<"OpenAI", "API", "key", "not", "configured.", "Please", "check", "your", "settings.">>
      [] m = "MsgGeminiSolutionFailed" ->
        <<"Failed", "to", "generate", "solution", "with", "Gemini", "API.", "Please", "check", "your", "API", "key", "or", "try", "again", "later.">>
      [] m = "MsgAnthropicSolutionFailed" ->
        <<"Failed", "to", "generate", "solution", "with", "Anthropic", "API.", "Please", "check", "your", "API", "key", "or", "try", "again", "later.">>
      [] m = "MsgSolutionFallback" ->
        <<"Failed", "to", "generate", "solution">>
      [] m = "MsgGeminiDebugFailed" ->
        <<"Failed", "to", "process", "debug", "request", "with", "Gemini", "API.", "Please", "check", "your", "API", "key", "or", "try", "again", "later.">>
      [] m = "MsgAnthropicDebugFailed" ->
        <<"Failed", "to", "process", "debug", "request", "with", "Anthropic", "API.", "Please", "check", "your", "API", "key", "or", "try", "again", "later.">>
      [] m = "MsgDebugFallback" ->
        <<"Failed", "to", "process", "debug", "request">>
      [] m = "MsgNoProblemInfo" ->
        <<"No", "problem", "info", "available">>
      [] m = "MsgLoadFailed" ->
        <<"Failed", "to", "load", "screenshot", "data", "and", "no", "messages", "available">>
      [] m = "MsgDebugLoadFailed" ->
        <<"Failed", "to", "load", "screenshot", "data", "for", "debugging">>
      [] m = "MsgServerError" ->
        <<"Server", "error.", "Please", "try", "again.">>
      [] m = "MsgExtraCanceled" ->
        <<"Extra", "processing", "was", "canceled", "by", "the", "user.">>
    \* messages of errors thrown by the SDKs, axios and JSON.parse (inputs)
      [] m = "LibConnectionError" ->  \* a network failure
        <<"Connection", "error.">>
      [] m = "LibIncorrectApiKey" ->  \* the provider rejecting the key
        <<"401", "Incorrect", "API", "key", "provided">>
      [] m = "LibServiceUnavailable" ->  \* a provider outage
        <<"503", "Service", "Unavailable">>
      [] m = "LibPromptTooLong" ->  \* a context-window overflow
        <<"prompt", "is", "too", "long:", "250000", "token", "s", ">", "200000", "maximum">>
      [] m = "LibUnexpectedToken" ->  \* JSON.parse on prose
        <<"Unexpected", "token", "I", "in", "JSON", "at", "position", "0">>
      [] m = "LibUnexpectedEnd" ->  \* JSON.parse on a truncated object
        <<"Unexpected", "end", "of", "JSON", "input">>
      [] OTHER -> <<>>  \* "": an error without a message

\* text.includes(needle)
Includes(text, needle) ==
    \E i \in 1..Len(text) :
        /\ i + Len(needle) - 1 <= Len(text)
        /\ SubSeq(text, i, i + Len(needle) - 1) = needle

----------------------------------------------------------------------------
\* Provider clients

Clients == [openai : BOOLEAN, gemini : BOOLEAN, anthropic : BOOLEAN]
NoClients == [openai |-> FALSE, gemini |-> FALSE, anthropic |-> FALSE]
CurrentClients ==
    [openai |-> openaiClient, gemini |-> geminiApiKey, anthropic |-> anthropicClient]

\* initializeAIClient(): the clients after it ran on config (p, key); throws is
\* the case of configHelper.loadConfig() throwing inside its try block.
InitializeAIClientIgnoringKey(p, key, throws) ==
    IF throws THEN NoClients
    ELSE CASE p = "openai" ->
                [openai |-> TRUE, gemini |-> FALSE, anthropic |-> FALSE]
           [] p = "gemini" ->
                [openai |-> FALSE, gemini |-> TRUE, anthropic |-> FALSE]
           [] p = "anthropic" ->
                [openai |-> FALSE, gemini |-> FALSE, anthropic |-> TRUE]

InitializeAIClientSharingKey(p, key, throws) ==
    IF throws THEN NoClients
    ELSE CASE p = "openai" ->
                [openai |-> key, gemini |-> key, anthropic |-> FALSE]
           [] p = "gemini" ->
                [openai |-> FALSE, gemini |-> key, anthropic |-> FALSE]
           [] p = "anthropic" ->
                [openai |-> FALSE, gemini |-> key, anthropic |-> key]

InitializeAIClient(p, key, throws) ==
    IF throws THEN NoClients
    ELSE CASE p = "openai" ->
                [openai |-> key, gemini |-> FALSE, anthropic |-> FALSE]
           [] p = "gemini" ->
                [openai |-> FALSE, gemini |-> key, anthropic |-> FALSE]
           [] p = "anthropic" ->
                [openai |-> FALSE, gemini |-> FALSE, anthropic |-> key]

SetClients(cl) ==
    /\ openaiClient' = cl.openai
    /\ geminiApiKey' = cl.gemini
    /\ anthropicClient' = cl.anthropic

\* configHelper.hasApiKey()
HasApiKey == apiKey

----------------------------------------------------------------------------
\* Initial state: the ProcessingHelper has been constructed on some config.

HelperInit ==
    /\ apiProvider \in Providers
    /\ apiKey \in BOOLEAN
    /\ \E throws \in BOOLEAN :
          LET cl == InitializeAIClient(apiProvider, apiKey, throws) IN
          /\ openaiClient = cl.openai
          /\ geminiApiKey = cl.gemini
          /\ anthropicClient = cl.anthropic
    /\ view = "queue"
    /\ problemInfo = "null"
    /\ hasDebugged = FALSE
    /\ screenshotQueue = <<>>
    /\ extraScreenshotQueue = <<>>
    /\ currentProcessingAbortController = Null
    /\ currentExtraProcessingAbortController = Null
    /\ pc = [c \in Cycles |-> "idle"]
    /\ hasMsgs = [c \in Cycles |-> FALSE]
    /\ callProvider = [c \in Cycles |-> "none"]
    /\ aborted = [c \in Cycles |-> FALSE]
    /\ paths = [c \in Cycles |-> <<>>]
    /\ log = [c \in Cycles |-> <<>>]
    /\ returned = NoCall

\* No text is being parsed.
Nothing == [kind |-> "none"]

----------------------------------------------------------------------------
\* The IPC handlers (electron/ipcHandlers.ts)

\* The channels initializeIpcHandlers registers with ipcMain.handle, in the order
\* of its calls.
Registrations ==
    <<"create-conversation", "update-conversation", "delete-conversation",
      "set-active-conversation", "get-config", "update-config",
      "check-api-key", "validate-api-key", "set-initial-credits",
      "decrement-credits", "get-screenshot-queue",
      "get-extra-screenshot-queue", "delete-screenshot", "get-image-preview",
      "process-screenshots", "update-content-dimensions",
      "set-window-dimensions", "get-screenshots", "trigger-screenshot",
      "take-screenshot", "add-text-message", "update-text-message",
      "delete-text-message", "trigger-process-screenshots",
      "open-external-url", "openLink", "open-settings-portal",
      "toggle-window", "reset-queues", "trigger-reset", "trigger-move-left",
      "trigger-move-right", "trigger-move-up", "trigger-move-down",
      "delete-last-screenshot", "otterai:get-recent-transcripts",
      "otterai:get-transcript-details", "otterai:save-credentials",
      "get-conversation-screenshots">>

\* The channels the "delete-last-screenshot" handler registers with
\* ipcMain.handle after it has notified the renderer.
NestedRegistrations ==
    <<"otterai:get-recent-transcripts", "otterai:get-transcript-details",
      "otterai:save-credentials">>

\* ipcMain.handle(channel, listener): Electron throws "Attempted to register a
\* second handler" when the channel has one; threw is that channel, "" if none.
Handle(handlers, channel) ==
    IF channel \in handlers
    THEN [handlers |-> handlers, threw |-> channel]
    ELSE [handlers |-> handlers \cup {channel}, threw |-> ""]

\* A run of ipcMain.handle calls: it ends at the first call that throws.
RECURSIVE HandleAll(_, _)
HandleAll(handlers, channels) ==
    IF channels = <<>> THEN [handlers |-> handlers, threw |-> ""]
    ELSE LET first == Handle(handlers, Head(channels)) IN
         IF first.threw # "" THEN first
         ELSE HandleAll(first.handlers, Tail(channels))

\* What an invocation did: the channel, the object its handler returned, the
\* object deps.deleteScreenshot returned to it (NoResult when it was not called),
\* what it sent to the renderer and the channel whose registration threw.
Invocation(channel, result, deletion, sent, threw) ==
    [channel |-> channel, result |-> result, deletion |-> deletion,
     sent |-> sent, threw |-> threw]
NoResult == [success |-> FALSE, error |-> "none"]
NotInvoked == Invocation("none", NoResult, NoResult, <<>>, "")

\* The main process has run initializeIpcHandlers.
IpcReady ==
    /\ invokeHandlers = HandleAll({}, Registrations).handlers
    /\ invoked = NotInvoked

----------------------------------------------------------------------------
\* The renderer before anything happened in it: an empty conversation store and
\* a Solutions page without a solution.

EmptyState == [conversations |-> <<>>, activeConversationId |-> Null]

StoreInit ==
    /\ state = EmptyState
    /\ pendingState = EmptyState
    /\ uuid = 0

NavInit ==
    /\ solutionData = FALSE
    /\ solutionSteps = 0
    /\ currentStepIndex = 0
    /\ showCompleteSolution = FALSE

RendererInit == StoreInit /\ NavInit

----------------------------------------------------------------------------
Init ==
    /\ HelperInit
    /\ parseInput = Nothing
    /\ parseResult = Nothing
    /\ IpcReady
    /\ RendererInit

\* The "config-updated" listener registered by the constructor.
ConfigUpdated(p, key, throws) ==
    /\ returned = NoCall
    /\ apiProvider' = p
    /\ apiKey' = key
    /\ SetClients(InitializeAIClient(p, key, throws))
    /\ UNCHANGED <<view, problemInfo, hasDebugged, queueVars, handleVars,
                   cycleVars, returned>>

----------------------------------------------------------------------------
\* Errors thrown by a provider request, and the responses it can resolve to.
\*   cancel     : axios.isCancel(error)
\*   status     : error.status (the SDKs' APIError), 0 when undefined
\*   respStatus : error.response.status (axios-shaped errors), 0 when undefined
\*   message    : error.message, "" when empty

Error(cancel, status, respStatus, message) ==
    [kind |-> "error", cancel |-> cancel, status |-> status,
     respStatus |-> respStatus, message |-> message]

\* A resolved request: valid JSON, a "{" without valid JSON, or prose; parseMsg is
\* the message of the SyntaxError JSON.parse throws on the last two.
Response(text, parseMsg) ==
    [kind |-> "response", text |-> text, cancel |-> FALSE, status |-> 0,
     respStatus |-> 0, message |-> parseMsg]

Responses ==
    {Response("json", "")}
      \cup {Response(t, m) : t \in {"badjson", "prose"},
                             m \in {"LibUnexpectedToken", "LibUnexpectedEnd"}}

OpenAIErrors ==
    {Error(FALSE, 0, 401, "LibIncorrectApiKey"),
     Error(FALSE, 0, 429, "LibServiceUnavailable"),
     Error(FALSE, 0, 500, "LibServiceUnavailable"),
     Error(FALSE, 401, 0, "LibIncorrectApiKey"),
     Error(FALSE, 0, 0, "LibConnectionError"),
     Error(FALSE, 0, 0, "")}

AnthropicErrors ==
    {Error(FALSE, 401, 0, "LibIncorrectApiKey"),
     Error(FALSE, 413, 0, "LibServiceUnavailable"),
     Error(FALSE, 429, 0, "LibServiceUnavailable"),
     Error(FALSE, 400, 0, "LibPromptTooLong"),
     Error(FALSE, 500, 0, "LibServiceUnavailable")}

GeminiErrors ==
    {Error(FALSE, 0, 500, "LibServiceUnavailable"),
     Error(FALSE, 0, 0, "LibConnectionError")}

AxiosCancel == Error(TRUE, 0, 0, "")

\* What the request of cycle c can settle to.  Only the Gemini request is given
\* the abort signal ({ signal } in axios.post): once its controller is aborted it
\* rejects with a cancellation; the SDK requests are not given the signal.
Outcomes(c) ==
    CASE callProvider[c] = "openai" -> Responses \cup OpenAIErrors
      [] callProvider[c] = "anthropic" -> Responses \cup AnthropicErrors
      [] callProvider[c] = "gemini" ->
            IF aborted[c] THEN {AxiosCancel} ELSE Responses \cup GeminiErrors
      [] OTHER -> {}

Ok(info) == [success |-> TRUE, info |-> info, error |-> ""]
Fail(msg) == [success |-> FALSE, info |-> "null", error |-> msg]

\* catch block of processScreenshotsHelper
HelperCatch(e) ==
    IF e.cancel THEN Fail("MsgCanceled")
    ELSE IF e.respStatus = 401 THEN Fail("MsgInvalidOpenAIKey")
    ELSE IF e.respStatus = 429 THEN Fail("MsgOpenAIRateLimit")
    ELSE IF e.respStatus = 500 THEN Fail("MsgOpenAIServerError")
    ELSE IF e.message # "" THEN Fail(e.message)
    ELSE Fail("MsgProcessFallback")

\* catch block of generateSolutionsHelper
SolutionCatch(e) ==
    IF e.cancel THEN Fail("MsgCanceled")
    ELSE IF e.respStatus = 401 THEN Fail("MsgInvalidOpenAIKey")
    ELSE IF e.respStatus = 429 THEN Fail("MsgOpenAIRateLimit")
    ELSE IF e.message # "" THEN Fail(e.message)
    ELSE Fail("MsgSolutionFallback")

\* catch block of processExtraScreenshotsHelper
DebugCatchWithFallbackOnly(e) == Fail("MsgDebugFallback")

DebugCatch(e) ==
    IF e.message # "" THEN Fail(e.message) ELSE Fail("MsgDebugFallback")

\* the catch blocks around the Anthropic requests; generic is the stage's message
AnthropicCatch(e, generic) ==
    IF e.status = 429 THEN Fail("MsgClaudeRateLimit")
    ELSE IF e.status = 413 \/ Includes(MsgText(e.message), <<"token">>)
         THEN Fail("MsgClaudeTooLarge")
    ELSE Fail(generic)

\* A plain Error thrown inside a helper with the given message.
Thrown(msg) == Error(FALSE, 0, 0, msg)

\* What a settled request was, whatever the code makes of it: the HTTP status of
\* the failure decides (401 credentials, 429 rate limit, 413 or a context-window
\* overflow payload size), a response that cannot be used is a parse failure.
Cause(out) ==
    IF out.cancel THEN "cancel"
    ELSE IF out.kind = "response" THEN "parse"
    ELSE IF out.status = 401 \/ out.respStatus = 401 THEN "key"
    ELSE IF out.status = 429 \/ out.respStatus = 429 THEN "rate"
    ELSE IF out.status = 413 \/ out.message = "LibPromptTooLong" THEN "size"
    ELSE "server"

----------------------------------------------------------------------------
\* Main workflow (view "queue")

ClientOf(cl, p) ==
    CASE p = "openai" -> cl.openai
      [] p = "gemini" -> cl.gemini
      [] p = "anthropic" -> cl.anthropic

\* result.error?.includes("API Key") || includes("OpenAI") || includes("Gemini")
IsApiKeyError(msg) ==
    \/ Includes(MsgText(msg), <<"API", "Key">>)
    \/ Includes(MsgText(msg), <<"OpenAI">>)
    \/ Includes(MsgText(msg), <<"Gemini">>)

\* processScreenshots, after processScreenshotsHelper returned result
ResultNotifications(res) ==
    IF res.success THEN <<>>
    ELSE IF IsApiKeyError(res.error) THEN <<Event("API_KEY_INVALID", "")>>
    ELSE <<Event("INITIAL_SOLUTION_ERROR", res.error)>>

\* processScreenshots, catch block of the main branch: the error object is sent,
\* then its message.
CatchNotifications(e) ==
    <<Event("INITIAL_SOLUTION_ERROR", "RawErrorObject"),
      IF e.cancel THEN Event("INITIAL_SOLUTION_ERROR", "MsgCanceled")
      ELSE IF e.message # "" THEN Event("INITIAL_SOLUTION_ERROR", e.message)
      ELSE Event("INITIAL_SOLUTION_ERROR", "MsgServerError")>>

\* Where a call is suspended next, after the await it is suspended at has
\* settled well: the reads are followed by the extraction (debug) request, the
\* extraction request by the solution request.
NextPhaseRetrying(phase) ==
    CASE phase = "reading" -> "extracting"
      [] phase = "extracting" -> "extracting"
      [] phase = "xreading" -> "debugging"

NextPhase(phase) ==
    CASE phase = "reading" -> "extracting"
      [] phase = "extracting" -> "generating"
      [] phase = "xreading" -> "debugging"

FreeSlot(c) == pc[c] = "idle" /\ \A d \in Cycles : d < c => pc[d] # "idle"

ResetCycle(c) ==
    /\ pc' = [pc EXCEPT ![c] = "idle"]
    /\ hasMsgs' = [hasMsgs EXCEPT ![c] = FALSE]
    /\ callProvider' = [callProvider EXCEPT ![c] = "none"]
    /\ aborted' = [aborted EXCEPT ![c] = FALSE]
    /\ paths' = [paths EXCEPT ![c] = <<>>]
    /\ log' = [log EXCEPT ![c] = <<>>]

\* deps.setView at the end of the main branch: "solutions" on success, back to
\* "queue" on any failure.
ViewAfterKeepingOnFailure(ok) == IF ok THEN "solutions" ELSE view

ViewAfter(ok) == IF ok THEN "solutions" ELSE "queue"

\* The main branch returns: result handling (or the catch block) has produced
\* notifs and the view; finally clears the handle.
EndMain(c, lg, cl, ok, notifs, cause) ==
    /\ SetClients(cl)
    /\ returned' = Call("main", lg \o notifs, ok, cause, 0)
    /\ view' = ViewAfter(ok)
    /\ currentProcessingAbortController' = Null
    /\ ResetCycle(c)
    /\ UNCHANGED <<configVars, hasDebugged, currentExtraProcessingAbortController>>

\* Extraction part of processScreenshotsHelper up to its request: the client of
\* the configured provider is verified (OpenAI: re-initialized when missing).
ExtractionStart(cl) ==
    CASE apiProvider = "openai" ->
            IF cl.openai THEN [cl |-> cl, error |-> ""]
            ELSE LET re == InitializeAIClient(apiProvider, apiKey, FALSE) IN
                 IF re.openai THEN [cl |-> re, error |-> ""]
                 ELSE [cl |-> re, error |-> "MsgOpenAINotConfiguredOrInvalid"]
      [] apiProvider = "gemini" ->
            IF cl.gemini THEN [cl |-> cl, error |-> ""]
            ELSE [cl |-> cl, error |-> "MsgGeminiNotConfigured"]
      [] apiProvider = "anthropic" ->
            IF cl.anthropic THEN [cl |-> cl, error |-> ""]
            ELSE [cl |-> cl, error |-> "MsgAnthropicNotConfigured"]

\* processScreenshotsHelper returns a failure of the extraction before it reaches
\* deps.setProblemInfo: the stored problemInfo is the one it found.
FailedExtractionClearingProblemInfo == problemInfo' = "null"

FailedExtraction == UNCHANGED problemInfo

\* processScreenshotsHelper from its start to the extraction request, for the
\* cycle c; ctrl is the handle slot at that point.
MainHelper(c, lg, cl, ctrl) ==
    LET lg1 == Append(lg, Status(20))
        st == ExtractionStart(cl)
    IN  IF st.error # ""
        THEN /\ EndMain(c, lg1, st.cl, FALSE, ResultNotifications(Fail(st.error)), "key")
             /\ FailedExtraction
             /\ UNCHANGED queueVars
        ELSE /\ SetClients(st.cl)
             /\ pc' = [pc EXCEPT ![c] = NextPhase("reading")]
             /\ hasMsgs' = [hasMsgs EXCEPT ![c] = FALSE]
             /\ callProvider' = [callProvider EXCEPT ![c] = apiProvider]
             /\ paths' = [paths EXCEPT ![c] = <<>>]
             /\ log' = [log EXCEPT ![c] = lg1]
             /\ currentProcessingAbortController' = ctrl
             /\ UNCHANGED <<configVars, view, problemInfo, hasDebugged, queueVars,
                            currentExtraProcessingAbortController, aborted, returned>>

\* processScreenshots: existingScreenshots.length === 0 && !hasMessages
NoInputIgnoringMessages(existing, m) == existing = <<>>

NoInput(existing, m) == existing = <<>> /\ ~m

\* processScreenshots, branch view === "queue"; m: messages is a non-empty
\* array; disk: the files for which fs.existsSync answers true.
MainEntry(m, disk, cl, n) ==
    LET existing == SelectSeq(screenshotQueue, LAMBDA f : f \in disk)
        lg0 == <<Event("INITIAL_START", "")>>
    IN  IF NoInput(existing, m)
        THEN /\ SetClients(cl)
             /\ returned' = Call("entry", Append(lg0, Event("NO_SCREENSHOTS", "")), FALSE,
                                     "input", n)
             /\ UNCHANGED <<configVars, view, problemInfo, hasDebugged, queueVars,
                            handleVars, cycleVars>>
        ELSE \E c \in Cycles :
             /\ FreeSlot(c)
             /\ IF existing # <<>>
                THEN /\ SetClients(cl)
                     /\ currentProcessingAbortController' = c
                     /\ pc' = [pc EXCEPT ![c] = "reading"]
                     /\ hasMsgs' = [hasMsgs EXCEPT ![c] = m]
                     /\ paths' = [paths EXCEPT ![c] = existing]
                     /\ log' = [log EXCEPT ![c] = lg0]
                     /\ UNCHANGED <<configVars, view, problemInfo, hasDebugged,
                                    queueVars, currentExtraProcessingAbortController,
                                    callProvider, aborted, returned>>
                ELSE MainHelper(c, lg0, cl, c)

\* The screenshot reads of a main cycle have settled; readable: the files whose
\* read did not throw.
MainReadDone(c, readable) ==
    /\ returned = NoCall
    /\ pc[c] = "reading"
    /\ LET validScreenshots == SelectSeq(paths[c], LAMBDA f : f \in readable) IN
       IF validScreenshots = <<>> /\ ~hasMsgs[c]
       THEN /\ EndMain(c, log[c], CurrentClients, FALSE,
                       CatchNotifications(Thrown("MsgLoadFailed")), "load")
            /\ UNCHANGED <<problemInfo, queueVars>>
       ELSE MainHelper(c, log[c], CurrentClients, currentProcessingAbortController)

\* processScreenshotsHelper: how the extraction request's outcome is turned into
\* problemInfo or into a failure, per provider branch.
ExtractionResult(p, out) ==
    CASE p = "openai" ->
            IF out.kind = "error" THEN HelperCatch(out)
            ELSE IF out.text = "json" THEN Ok("parsed")
            ELSE IF out.text = "badjson" THEN Ok("synthesized")
            ELSE Fail("MsgParseFailed")
      [] p = "gemini" ->
            IF out.kind = "response" /\ out.text = "json" THEN Ok("parsed")
            ELSE Fail("MsgGeminiExtractFailed")
      [] p = "anthropic" ->
            IF out.kind = "response" /\ out.text = "json" THEN Ok("parsed")
            ELSE AnthropicCatch(out, "MsgAnthropicExtractFailed")

\* generateSolutionsHelper up to its request: the client check of the provider
\* configured at that moment ("" when the request is issued).
SolutionStart(cl) ==
    CASE apiProvider = "openai" ->
            IF cl.openai THEN "" ELSE "MsgOpenAINotConfigured"
      [] apiProvider = "gemini" ->
            IF cl.gemini THEN "" ELSE "MsgGeminiNotConfigured"
      [] apiProvider = "anthropic" ->
            IF cl.anthropic THEN "" ELSE "MsgAnthropicNotConfigured"

\* generateSolutionsHelper: the outcome of the solution request, per provider.
\* Every response text is parsed into a SolutionResult.
SolutionResult(p, out) ==
    CASE p = "openai" ->
            IF out.kind = "error" THEN SolutionCatch(out) ELSE Ok("")
      [] p = "gemini" ->
            IF out.kind = "error" THEN Fail("MsgGeminiSolutionFailed") ELSE Ok("")
      [] p = "anthropic" ->
            IF out.kind = "error"
            THEN AnthropicCatch(out, "MsgAnthropicSolutionFailed")
            ELSE Ok("")

\* processScreenshotsHelper: a failed solutionsResult is thrown as an Error and
\* classified by the helper's own catch block.
Rethrown(res) == HelperCatch(Thrown(res.error))

\* processScreenshotsHelper after a successful extraction: progress 40, then
\* (after setProblemInfo) PROBLEM_EXTRACTED.
ExtractedNotificationsWithoutEvent(lg) == Append(lg, Status(40))

ExtractedNotifications(lg) == lg \o <<Status(40), Event("PROBLEM_EXTRACTED", "")>>

\* The extraction request of cycle c settles; on success the cycle stores
\* problemInfo and chains into solution generation.
ExtractResponse(c, out) ==
    /\ returned = NoCall
    /\ pc[c] = "extracting"
    /\ out \in Outcomes(c)
    /\ LET r == ExtractionResult(callProvider[c], out)
           lg == Append(ExtractedNotifications(log[c]), Status(60))
           notConfigured == SolutionStart(CurrentClients)
       IN  IF ~r.success
           THEN /\ EndMain(c, log[c], CurrentClients, FALSE, ResultNotifications(r),
                           Cause(out))
                /\ FailedExtraction
                /\ UNCHANGED queueVars
           ELSE /\ problemInfo' = r.info
                /\ IF notConfigured # ""
                   THEN /\ EndMain(c, lg, CurrentClients, FALSE,
                              ResultNotifications(Rethrown(Fail(notConfigured))), "key")
                        /\ UNCHANGED queueVars
                   ELSE /\ pc' = [pc EXCEPT ![c] = NextPhase(pc[c])]
                        /\ callProvider' = [callProvider EXCEPT ![c] = apiProvider]
                        /\ paths' = [paths EXCEPT ![c] = <<>>]
                        /\ log' = [log EXCEPT ![c] = lg]
                        /\ UNCHANGED <<configVars, clientVars, view, hasDebugged,
                                       queueVars, handleVars, hasMsgs, aborted,
                                       returned>>

\* this.screenshotHelper.clearExtraScreenshotQueue()
ClearExtraScreenshotQueueSkipped == UNCHANGED extraScreenshotQueue

ClearExtraScreenshotQueue == extraScreenshotQueue' = <<>>

\* The solution request of cycle c settles.
SolutionResponse(c, out) ==
    /\ returned = NoCall
    /\ pc[c] = "generating"
    /\ out \in Outcomes(c)
    /\ LET r == SolutionResult(callProvider[c], out) IN
       IF r.success
       THEN /\ ClearExtraScreenshotQueue
            /\ EndMain(c, log[c] \o <<Status(100), Event("SOLUTION_SUCCESS", "")>>,
                       CurrentClients, TRUE, <<>>, "")
            /\ UNCHANGED <<problemInfo, screenshotQueue>>
       ELSE /\ EndMain(c, log[c], CurrentClients, FALSE,
                       ResultNotifications(Rethrown(r)), Cause(out))
            /\ UNCHANGED <<problemInfo, queueVars>>

----------------------------------------------------------------------------
\* Extra (debug) workflow (any other view)

\* deps.setHasDebugged(true) is reached only when the debug result is a success.
HasDebuggedAfterAnyResult(ok) == TRUE

HasDebuggedAfter(ok) == IF ok THEN TRUE ELSE hasDebugged

\* The extra branch returns; finally clears the extra handle.
EndExtraWithoutFinally(c, lg, ok, cause) ==
    /\ returned' = Call("extra", lg, ok, cause, 0)
    /\ hasDebugged' = IF ok THEN TRUE ELSE hasDebugged
    /\ ResetCycle(c)
    /\ UNCHANGED <<configVars, clientVars, view, problemInfo, queueVars, handleVars>>

EndExtra(c, lg, ok, cause) ==
    /\ returned' = Call("extra", lg, ok, cause, 0)
    /\ hasDebugged' = HasDebuggedAfter(ok)
    /\ currentExtraProcessingAbortController' = Null
    /\ ResetCycle(c)
    /\ UNCHANGED <<configVars, clientVars, view, problemInfo, queueVars,
                   currentProcessingAbortController>>

\* processScreenshots: the extra queue is empty, or none of its files exists
NoExtraInputUnchecked(queue, existing) == queue = <<>>

NoExtraInput(queue, existing) == queue = <<>> \/ existing = <<>>

\* processScreenshots: allPaths of the extra branch
AllPathsExtraOnly(main, existingExtra) == existingExtra

AllPaths(main, existingExtra) == main \o existingExtra

\* processScreenshots, branch view !== "queue"
ExtraEntry(disk, cl, n) ==
    LET existingExtraScreenshots ==
            SelectSeq(extraScreenshotQueue, LAMBDA f : f \in disk)
    IN  IF NoExtraInput(extraScreenshotQueue, existingExtraScreenshots)
        THEN /\ SetClients(cl)
             /\ returned' = Call("entry", <<Event("NO_SCREENSHOTS", "")>>, FALSE, "input", n)
             /\ UNCHANGED <<configVars, view, problemInfo, hasDebugged, queueVars,
                            handleVars, cycleVars>>
        ELSE \E c \in Cycles :
             /\ FreeSlot(c)
             /\ SetClients(cl)
             /\ currentExtraProcessingAbortController' = c
             /\ pc' = [pc EXCEPT ![c] = "xreading"]
             /\ paths' = [paths EXCEPT ![c] =
                                AllPaths(screenshotQueue, existingExtraScreenshots)]
             /\ log' = [log EXCEPT ![c] = <<Event("DEBUG_START", "")>>]
             /\ UNCHANGED <<configVars, view, problemInfo, hasDebugged, queueVars,
                            currentProcessingAbortController, hasMsgs,
                            callProvider, aborted, returned>>

\* processExtraScreenshotsHelper up to its request: "" when the request is
\* issued, else the message of the failure it returns.
DebugStart(cl) ==
    CASE apiProvider = "openai" ->
            IF cl.openai THEN "" ELSE "MsgOpenAINotConfigured"
      [] apiProvider = "gemini" ->
            IF cl.gemini THEN "" ELSE "MsgGeminiNotConfigured"
      [] apiProvider = "anthropic" ->
            IF cl.anthropic THEN "" ELSE "MsgAnthropicNotConfigured"

\* The screenshot reads of an extra cycle have settled; readable: the files that
\* exist and whose read did not throw.
ExtraReadDone(c, readable) ==
    /\ returned = NoCall
    /\ pc[c] = "xreading"
    /\ LET validScreenshots == SelectSeq(paths[c], LAMBDA f : f \in readable)
           notConfigured == DebugStart(CurrentClients)
       IN  IF validScreenshots = <<>>
           THEN EndExtra(c, Append(log[c], Event("DEBUG_ERROR", "MsgDebugLoadFailed")),
                         FALSE, "load")
           ELSE IF problemInfo = "null"
           THEN EndExtra(c, Append(log[c],
                            Event("DEBUG_ERROR", DebugCatch(Thrown("MsgNoProblemInfo")).error)),
                         FALSE, "state")
           ELSE IF notConfigured # ""
           THEN EndExtra(c, log[c] \o <<Status(30), Event("DEBUG_ERROR", notConfigured)>>,
                         FALSE, "key")
           ELSE /\ pc' = [pc EXCEPT ![c] = NextPhase(pc[c])]
                /\ callProvider' = [callProvider EXCEPT ![c] = apiProvider]
                /\ paths' = [paths EXCEPT ![c] = validScreenshots]
                /\ log' = [log EXCEPT ![c] = log[c] \o <<Status(30), Status(60)>>]
                /\ UNCHANGED <<configVars, clientVars, view, problemInfo, hasDebugged,
                               queueVars, handleVars, hasMsgs, aborted, returned>>

\* processExtraScreenshotsHelper: the outcome of the debug request, per provider.
DebugResult(p, out) ==
    CASE p = "openai" ->
            IF out.kind = "error" THEN DebugCatch(out) ELSE Ok("")
      [] p = "gemini" ->
            IF out.kind = "error" THEN Fail("MsgGeminiDebugFailed") ELSE Ok("")
      [] p = "anthropic" ->
            IF out.kind = "error"
            THEN AnthropicCatch(out, "MsgAnthropicDebugFailed")
            ELSE Ok("")

\* The debug request of cycle c settles.
DebugResponse(c, out) ==
    /\ returned = NoCall
    /\ pc[c] = "debugging"
    /\ out \in Outcomes(c)
    /\ LET r == DebugResult(callProvider[c], out) IN
       IF r.success
       THEN EndExtra(c, log[c] \o <<Status(100), Event("DEBUG_SUCCESS", "")>>, TRUE, "")
       ELSE EndExtra(c, Append(log[c], Event("DEBUG_ERROR", r.error)), FALSE, Cause(out))

----------------------------------------------------------------------------
\* Entry points

\* processScreenshots: "First verify we have a valid AI client": the clients
\* afterwards, the number of initializeAIClient runs, and whether to go on.
ValidateClientWithoutReturn ==
    LET ready == ClientOf(CurrentClients, apiProvider)
        cl == IF ready THEN CurrentClients
              ELSE InitializeAIClient(apiProvider, apiKey, FALSE)
    IN  [cl |-> cl, reinits |-> IF ready THEN 0 ELSE 1, ok |-> TRUE]

ValidateClient ==
    LET ready == ClientOf(CurrentClients, apiProvider)
        cl == IF ready THEN CurrentClients
              ELSE InitializeAIClient(apiProvider, apiKey, FALSE)
    IN  [cl |-> cl, reinits |-> IF ready THEN 0 ELSE 1,
         ok |-> ClientOf(cl, apiProvider)]

\* processScreenshots(conversationId, messages)
ProcessScreenshots(m, disk) ==
    LET cl == ValidateClient.cl
        n == ValidateClient.reinits
    IN  IF ~ValidateClient.ok
        THEN /\ SetClients(cl)
             /\ returned' = Call("entry", <<Event("API_KEY_INVALID", "")>>, FALSE, "key", n)
             /\ UNCHANGED <<configVars, view, problemInfo, hasDebugged, queueVars,
                            handleVars, cycleVars>>
        ELSE IF view = "queue" THEN MainEntry(m, disk, cl, n)
        ELSE ExtraEntry(disk, cl, n)

\* A caller other than the IPC handlers (the global shortcut) runs
\* processScreenshots().
ProcessScreenshotsCall(disk) ==
    /\ returned = NoCall
    /\ ProcessScreenshots(FALSE, disk)

\* ipcMain.handle("trigger-process-screenshots")
TriggerProcessScreenshots(m, disk) ==
    /\ returned = NoCall
    /\ IF ~HasApiKey
       THEN /\ returned' = Call("ipc", <<Event("API_KEY_INVALID", "")>>, FALSE, "key", 0)
            /\ UNCHANGED <<configVars, clientVars, view, problemInfo, hasDebugged,
                           queueVars, handleVars, cycleVars>>
       ELSE ProcessScreenshots(m, disk)

\* The abort() calls of cancelOngoingRequests: the signals aborted afterwards.
AbortSet ==
    {c \in Cycles : \/ c = currentProcessingAbortController
                    \/ c = currentExtraProcessingAbortController}

\* cancelOngoingRequests(): state changes, and the notifications it sends.
CancelEffectsKeepingProblemInfo ==
    /\ aborted' = [c \in Cycles |-> aborted[c] \/ c \in AbortSet]
    /\ currentProcessingAbortController' = Null
    /\ currentExtraProcessingAbortController' = Null
    /\ hasDebugged' = FALSE
    /\ UNCHANGED problemInfo

CancelEffects ==
    /\ aborted' = [c \in Cycles |-> aborted[c] \/ c \in AbortSet]
    /\ currentProcessingAbortController' = Null
    /\ currentExtraProcessingAbortController' = Null
    /\ hasDebugged' = FALSE
    /\ problemInfo' = "null"

CancelNotificationsPerHandle ==
    (IF currentProcessingAbortController # Null
     THEN <<Event("NO_SCREENSHOTS", "")>> ELSE <<>>)
      \o (IF currentExtraProcessingAbortController # Null
          THEN <<Event("NO_SCREENSHOTS", "")>> ELSE <<>>)

CancelNotifications ==
    IF \/ currentProcessingAbortController # Null
       \/ currentExtraProcessingAbortController # Null
    THEN <<Event("NO_SCREENSHOTS", "")>>
    ELSE <<>>

CancelOngoingRequests ==
    /\ returned = NoCall
    /\ CancelEffects
    /\ returned' = Call("cancel", CancelNotifications, TRUE, "", 0)
    /\ UNCHANGED <<configVars, clientVars, view, queueVars, pc, hasMsgs,
                   callProvider, paths, log>>

\* deps.clearQueues(): "Clear all queues immediately"
ClearQueues ==
    /\ screenshotQueue' = <<>>
    /\ extraScreenshotQueue' = <<>>

\* ipcMain.handle("trigger-reset")
TriggerResetWithoutCancel ==
    /\ returned = NoCall
    /\ ClearQueues
    /\ view' = "queue"
    /\ returned' = Call("reset", <<Event("reset-view", ""), Event("reset", "")>>,
                        TRUE, "", 0)
    /\ UNCHANGED <<configVars, clientVars, problemInfo, hasDebugged, handleVars,
                   cycleVars>>

TriggerReset ==
    /\ returned = NoCall
    /\ CancelEffects
    /\ ClearQueues
    /\ view' = "queue"
    /\ returned' = Call("reset", CancelNotifications
                                   \o <<Event("reset-view", ""), Event("reset", "")>>,
                        TRUE, "", 0)
    /\ UNCHANGED <<configVars, clientVars, pc, hasMsgs, callProvider, paths, log>>

\* The promise of the call settles and its caller resumes.
HandlerReturn ==
    /\ returned # NoCall
    /\ returned' = NoCall
    /\ UNCHANGED <<configVars, clientVars, view, problemInfo, hasDebugged, queueVars,
                   handleVars, cycleVars>>

\* The user takes a screenshot: it is queued for the current view.
TakeScreenshot ==
    /\ returned = NoCall
    /\ IF view = "queue"
       THEN /\ screenshotQueue = <<>>
            /\ screenshotQueue' = <<MainFile>>
            /\ UNCHANGED extraScreenshotQueue
       ELSE /\ extraScreenshotQueue = <<>>
            /\ extraScreenshotQueue' = <<ExtraFile>>
            /\ UNCHANGED screenshotQueue
    /\ UNCHANGED <<configVars, clientVars, view, problemInfo, hasDebugged,
                   handleVars, cycleVars, returned>>

----------------------------------------------------------------------------
\* The settings are saved with another provider only while no call is suspended.
AllIdle == \A c \in Cycles : pc[c] = "idle"

Next ==
    \/ /\ \E p \in Providers, key \in BOOLEAN, throws \in BOOLEAN :
             /\ p # apiProvider => AllIdle
             /\ ConfigUpdated(p, key, throws)
       /\ UNCHANGED otherVars
    \/ /\ \E disk \in SUBSET Files : ProcessScreenshotsCall(disk)
       /\ UNCHANGED otherVars
    \/ /\ \E m \in BOOLEAN, disk \in SUBSET Files : TriggerProcessScreenshots(m, disk)
       /\ UNCHANGED otherVars
    \/ /\ \E c \in Cycles, readable \in SUBSET Files : MainReadDone(c, readable)
       /\ UNCHANGED otherVars
    \/ /\ \E c \in Cycles : \E out \in Outcomes(c) : ExtractResponse(c, out)
       /\ UNCHANGED otherVars
    \/ /\ \E c \in Cycles : \E out \in Outcomes(c) : SolutionResponse(c, out)
       /\ UNCHANGED otherVars
    \/ /\ \E c \in Cycles, readable \in SUBSET Files : ExtraReadDone(c, readable)
       /\ UNCHANGED otherVars
    \/ /\ \E c \in Cycles : \E out \in Outcomes(c) : DebugResponse(c, out)
       /\ UNCHANGED otherVars
    \/ CancelOngoingRequests /\ UNCHANGED otherVars
    \/ TriggerReset /\ UNCHANGED otherVars
    \/ HandlerReturn /\ UNCHANGED otherVars
    \/ TakeScreenshot /\ UNCHANGED otherVars

Spec == Init /\ [][Next]_vars

\* The pending file reads or the pending request of cycle c settle.
Settle(c) ==
    \/ \E readable \in SUBSET Files : MainReadDone(c, readable)
    \/ \E out \in Outcomes(c) : ExtractResponse(c, out)
    \/ \E out \in Outcomes(c) : SolutionResponse(c, out)
    \/ \E readable \in SUBSET Files : ExtraReadDone(c, readable)
    \/ \E out \in Outcomes(c) : DebugResponse(c, out)

\* Settle(c) is enabled exactly when cycle c is suspended and no call is just
\* returning.
Ready(c) == returned = NoCall /\ pc[c] # "idle"

\* Every file read and provider request eventually returns or fails and its
\* continuation is run by the event loop, however many other handlers run in
\* between (strong fairness of Settle(c), with its enabling condition written
\* out as Ready(c)); a call that returned lets its caller resume.
FairSpec ==
    /\ Spec
    /\ WF_vars(HandlerReturn /\ UNCHANGED otherVars)
    /\ \A c \in Cycles :
          []<>Ready(c) => []<><<Settle(c) /\ UNCHANGED otherVars>>_vars

----------------------------------------------------------------------------
\* Texts.  A text is the sequence of its lexical pieces: the markers the code
\* searches for, words, other characters, blanks and line ends.  The regular
\* expressions and String methods of the code are computed on these sequences.

Newline == "\n"
Space == " "
Fence == "fence"     \* three backquotes
Blank == {Newline, Space}                       \* \s
Words == {"a", "b", "json", "python", "because"}  \* runs of \w

helperVars == <<configVars, clientVars, view, problemInfo, hasDebugged, queueVars,
                handleVars, cycleVars, returned>>

\* All texts of at most n pieces taken from the set pieces.
TextsUpTo(pieces, n) == UNION {[1..k -> pieces] : k \in 0..n}

At(t, i) == IF i \in 1..Len(t) THEN t[i] ELSE ""
Sub(t, a, b) == IF a > b THEN <<>> ELSE SubSeq(t, a, b)
Min(S) == CHOOSE x \in S : \A y \in S : x <= y

\* The first index from `from` on where t has one of the pieces, 0 if nowhere.
FirstAt(t, from, pieces) ==
    LET I == {i \in from..Len(t) : t[i] \in pieces} IN
    IF I = {} THEN 0 ELSE Min(I)

\* String.trim()
RECURSIVE TrimStart(_)
TrimStart(t) ==
    IF t # <<>> /\ Head(t) \in Blank THEN TrimStart(Tail(t)) ELSE t

RECURSIVE TrimEnd(_)
TrimEnd(t) ==
    IF t # <<>> /\ t[Len(t)] \in Blank THEN TrimEnd(Sub(t, 1, Len(t) - 1)) ELSE t

Trim(t) == TrimEnd(TrimStart(t))

----------------------------------------------------------------------------
\* Parsing of the extraction response (processScreenshotsHelper)

\* The pieces of an extraction response: a fence, the word json, the braces and
\* the members of an object, an apology, a word, a line end.
Apology == "I'm sorry"
ExtractionPieces == {Fence, "json", "{", "}", "member", Apology, "a", Newline}

\* responseText.replace(/```json|```/g, "")
StripFencesKeepingTag(t) == SelectSeq(t, LAMBDA x : x # Fence)

RECURSIVE StripFences(_)
StripFences(t) ==
    IF t = <<>> THEN <<>>
    ELSE IF Head(t) = Fence
         THEN IF At(t, 2) = "json" THEN StripFences(Sub(t, 3, Len(t)))
              ELSE StripFences(Tail(t))
    ELSE <<Head(t)>> \o StripFences(Tail(t))

\* JSON.parse(jsonText): an object is "{", its members, "}", with blanks allowed
\* between them; anything else throws a SyntaxError.
JsonParse(t) ==
    LET body == SelectSeq(t, LAMBDA x : x \notin Blank) IN
    IF body \in {<<"{", "}">>, <<"{", "member", "}">>}
    THEN [ok |-> TRUE, value |-> Sub(body, 2, Len(body) - 1), error |-> ""]
    ELSE [ok |-> FALSE, value |-> <<>>,
          error |-> IF body \in {<<>>, <<"{">>, <<"{", "member">>}
                    THEN "LibUnexpectedEnd" ELSE "LibUnexpectedToken"]

ParseOk(info) == [success |-> TRUE, info |-> info, error |-> ""]
ParseFail(msg) == [success |-> FALSE, info |-> Nothing, error |-> msg]

\* problemInfo = JSON.parse(jsonText)
Parsed(value) == [kind |-> "parsed", fields |-> value]

\* the structured response built when JSON.parse fails (OpenAI branch)
Synthesized(responseText, language) ==
    [kind |-> "synthesized",
     problem_statement |-> responseText,
     constraints |-> "No specific constraints provided",
     example_input |-> "No example input provided",
     example_output |-> "No example output provided",
     language |-> language]

\* The parse of the extraction response in the branch of provider p.
ParseProblemInfo(p, responseText, language) ==
    LET jsonText == Trim(StripFences(responseText))
        parsed == JsonParse(jsonText)
    IN  CASE p = "openai" ->
                IF At(jsonText, 1) = Apology \/ ~Includes(jsonText, <<"{">>)
                THEN ParseFail("MsgParseFailed")
                ELSE IF parsed.ok THEN ParseOk(Parsed(parsed.value))
                ELSE ParseOk(Synthesized(responseText, language))
          [] p = "gemini" ->
                IF parsed.ok THEN ParseOk(Parsed(parsed.value))
                ELSE ParseFail("MsgGeminiExtractFailed")
          [] p = "anthropic" ->
                IF parsed.ok THEN ParseOk(Parsed(parsed.value))
                ELSE ParseFail(AnthropicCatch(Thrown(parsed.error),
                                              "MsgAnthropicExtractFailed").error)

\* Longest extraction response of the model, in pieces.
MaxResponse == 4

ExtractionInputs ==
    [kind : {"extraction"}, provider : Providers,
     text : TextsUpTo(ExtractionPieces, MaxResponse), language : {"python"}]

\* The extraction response is parsed.
ParseExtraction ==
    /\ parseInput.kind = "extraction"
    /\ parseResult = Nothing
    /\ parseResult' =
          [kind |-> "extraction",
           value |-> ParseProblemInfo(parseInput.provider, parseInput.text,
                                      parseInput.language)]
    /\ UNCHANGED <<helperVars, ipcVars, rendererVars, parseInput>>

----------------------------------------------------------------------------
\* Parsing of the solution response (generateSolutionsHelper)

StepTitle == "---STEP_TITLE: "
StepExplanation == "---STEP_EXPLANATION: "
StepCode == "---STEP_CODE:"
Heading == "## "      \* one of "Step <digits>: ", "### ", "## "

RECURSIVE WordRun(_, _)
\* length of the run of \w pieces of t that starts at index i
WordRun(t, i) == IF At(t, i) \in Words THEN 1 + WordRun(t, i + 1) ELSE 0

RECURSIVE BlankRun(_, _)
\* length of the run of \s pieces of t that starts at index i
BlankRun(t, i) == IF At(t, i) \in Blank THEN 1 + BlankRun(t, i + 1) ELSE 0

NoMatch == [found |-> FALSE]
Step(title, explanation, code) ==
    [title |-> title, explanation |-> explanation, code |-> code]

\* stepPattern from "\n---STEP_CODE:" on, tried at index j: the index of the
\* first piece of the code, 0 when "\n---STEP_CODE:\n```(?:\w+)?\n" does not
\* match there.
CodeStart(t, j) ==
    IF /\ At(t, j) = Newline
       /\ At(t, j + 1) = StepCode
       /\ At(t, j + 2) = Newline
       /\ At(t, j + 3) = Fence
    THEN LET r == WordRun(t, j + 4) IN
         IF At(t, j + 4 + r) = Newline THEN j + 5 + r ELSE 0
    ELSE 0

\* stepPattern tried at index s.  The title runs to the end of its line, which
\* "---STEP_EXPLANATION: " must follow; the explanation is lazy: it ends at the
\* first "\n---STEP_CODE:" from which the rest of the pattern matches; the code
\* ends at the first fence after its start.
StepMatchAt(t, s) ==
    IF At(t, s) # StepTitle THEN NoMatch
    ELSE LET k == FirstAt(t, s + 1, {Newline}) IN
         IF k = 0 \/ At(t, k + 1) # StepExplanation THEN NoMatch
         ELSE LET J == {j \in (k + 2)..Len(t) :
                           /\ CodeStart(t, j) # 0
                           /\ FirstAt(t, CodeStart(t, j), {Fence}) # 0}
              IN  IF J = {} THEN NoMatch
                  ELSE LET j == Min(J)
                           m == CodeStart(t, j)
                           f == FirstAt(t, m, {Fence})
                       IN  [found |-> TRUE,
                            title |-> Sub(t, s + 1, k - 1),
                            explanation |-> Sub(t, k + 2, j - 1),
                            code |-> Sub(t, m, f - 1),
                            end |-> f]

\* while ((match = stepPattern.exec(responseContent)) !== null) steps.push(...)
StepMatchesFirstOnly(t, from) ==
    LET S == {s \in from..Len(t) : StepMatchAt(t, s).found} IN
    IF S = {} THEN <<>>
    ELSE LET m == StepMatchAt(t, Min(S)) IN
         <<Step(Trim(m.title), Trim(m.explanation), Trim(m.code))>>

RECURSIVE StepMatches(_, _)
StepMatches(t, from) ==
    LET S == {s \in from..Len(t) : StepMatchAt(t, s).found} IN
    IF S = {} THEN <<>>
    ELSE LET m == StepMatchAt(t, Min(S)) IN
         <<Step(Trim(m.title), Trim(m.explanation), Trim(m.code))>>
            \o StepMatches(t, m.end + 1)

RECURSIVE HeadingMatches(_, _)
\* responseContent.match(/(?:Step \d+:|###|##) (.*?)(?:\n|$)/g): each match runs
\* from a heading marker to the end of its line, the line end included.
HeadingMatches(t, from) ==
    LET s == FirstAt(t, from, {Heading}) IN
    IF s = 0 THEN <<>>
    ELSE LET e == FirstAt(t, s + 1, {Newline}) IN
         IF e = 0 THEN <<Sub(t, s, Len(t))>>
         ELSE <<Sub(t, s, e)>> \o HeadingMatches(t, e + 1)

RECURSIVE Sections(_, _)
\* responseContent.split(/(?:Step \d+:|###|##) .*?\n/): a separator is a heading
\* marker with the rest of its line and the line end.
Sections(t, from) ==
    LET S == {s \in from..Len(t) :
                 t[s] = Heading /\ FirstAt(t, s + 1, {Newline}) # 0}
    IN  IF S = {} THEN <<Sub(t, from, Len(t))>>
        ELSE <<Sub(t, from, Min(S) - 1)>>
                \o Sections(t, FirstAt(t, Min(S) + 1, {Newline}) + 1)

\* text.match(/```(?:\w+)?\s*([\s\S]*?)```/): the first fence that has a fence
\* after it; the words and then the blanks that follow it are skipped.
CodeBlockMatch(t) ==
    LET f == FirstAt(t, 1, {Fence})
        g == IF f = 0 THEN 0 ELSE FirstAt(t, f + 1, {Fence})
    IN  IF g = 0 THEN NoMatch
        ELSE LET r == WordRun(t, f + 1)
                 w == BlankRun(t, f + 1 + r)
             IN  [found |-> TRUE, index |-> f, code |-> Sub(t, f + 1 + r + w, g - 1)]

\* possibleStepTitles[i].replace(/(?:Step \d+:|###|##) /g, "")
RemoveHeadings(t) == SelectSeq(t, LAMBDA x : x # Heading)

\* body of the loop over the section headers
SectionStep(titleMatch, content) ==
    LET m == CodeBlockMatch(content) IN
    Step(Trim(RemoveHeadings(titleMatch)),
         IF m.found THEN Trim(Sub(content, 1, m.index - 1)) ELSE Trim(content),
         IF m.found THEN Trim(m.code) ELSE <<>>)

\* the steps made of the section headers
HeadingSteps(t) ==
    LET possibleStepTitles == HeadingMatches(t, 1)
        sections == Sections(t, 1)
        startIndex == IF Trim(sections[1]) = <<>> THEN 1 ELSE 0
        n == Min({Len(possibleStepTitles), Len(sections) - startIndex})
    IN  [i \in 1..n |-> SectionStep(possibleStepTitles[i], sections[i + startIndex])]

\* the single default step with the whole solution
DefaultStep(t) ==
    LET codeMatch == CodeBlockMatch(t) IN
    Step(<<"Complete Solution">>, <<"The solution to the problem.">>,
         IF codeMatch.found THEN Trim(codeMatch.code) ELSE <<>>)

ExtractStepsWithoutDefault(t) ==
    LET steps == StepMatches(t, 1) IN
    IF steps # <<>> THEN steps ELSE HeadingSteps(t)

\* the steps of a response: token format, else section headers, else the default
ExtractSteps(t) ==
    LET steps == StepMatches(t, 1) IN
    IF steps # <<>> THEN steps
    ELSE IF HeadingSteps(t) # <<>> THEN HeadingSteps(t)
    ELSE <<DefaultStep(t)>>

SolutionCodeOfFirstBlock(steps, t) ==
    LET codeMatch == CodeBlockMatch(t) IN
    IF codeMatch.found THEN Trim(codeMatch.code) ELSE t

\* const code = finalStepCode || (codeMatch ? codeMatch[1].trim() : responseContent)
SolutionCode(steps, t) ==
    LET finalStepCode == IF Len(steps) > 0 THEN steps[Len(steps)].code ELSE <<>>
        codeMatch == CodeBlockMatch(t)
    IN  IF finalStepCode # <<>> THEN finalStepCode
        ELSE IF codeMatch.found THEN Trim(codeMatch.code)
        ELSE t

\* formattedResponse (its code and steps)
FormattedResponse(t) ==
    [code |-> SolutionCode(ExtractSteps(t), t), steps |-> ExtractSteps(t)]

\* The solution responses of the model are made of segments: step blocks in the
\* token format, lines with a section header, fenced code, prose, and stray
\* step markers.
Block(title, lang, explanation, code) ==
    [type |-> "block", title |-> title, explanation |-> explanation, code |-> code,
     text |-> <<StepTitle>> \o title \o <<Newline, StepExplanation>> \o explanation
                 \o <<Newline, StepCode, Newline, Fence>> \o lang \o <<Newline>>
                 \o code \o <<Fence, Newline>>]

Other(type, text) ==
    [type |-> type, title |-> <<>>, explanation |-> <<>>, code |-> <<>>, text |-> text]

Blocks ==
    {Block(<<"a">>, lang, <<"b">>, code) :
        lang \in {<<>>, <<"python">>},
        code \in {<<"a", Newline>>, <<Space, "b", "=", "a", Newline>>}}
      \cup {Block(<<"b", Space>>, lang, <<"a", Newline, "b">>, <<"b", Newline>>) :
               lang \in {<<>>, <<"python">>}}

Segments ==
    Blocks \cup
    {Other("heading", <<Heading, "a", Newline>>),
     Other("heading", <<Heading, "b">>),
     Other("fenced", <<Fence, "python", Newline, "a", Newline, Fence, Newline>>),
     Other("fenced", <<Fence, Newline, "b", "=", Fence>>),
     Other("fenced", <<Fence, Fence>>),
     Other("prose", <<"a", Newline>>),
     Other("prose", <<Newline>>),
     Other("prose", <<Fence>>),
     Other("stray", <<StepTitle, "a", Newline>>),
     Other("stray", <<StepTitle, "a", Newline, StepExplanation, "b", Newline,
                      StepCode, Space, Newline, Fence, Newline, "a", Fence>>)}

RECURSIVE Flatten(_)
Flatten(segments) ==
    IF segments = <<>> THEN <<>>
    ELSE Head(segments).text \o Flatten(Tail(segments))

\* Most segments of a solution response of the model.
MaxSegments == 3

SolutionInputs ==
    {[kind |-> "solution", segments |-> sg, text |-> Flatten(sg)] :
        sg \in TextsUpTo(Segments, MaxSegments)}

\* The solution response is parsed.
ParseSolution ==
    /\ parseInput.kind = "solution"
    /\ parseResult = Nothing
    /\ parseResult' = [kind |-> "solution", value |-> FormattedResponse(parseInput.text)]
    /\ UNCHANGED <<helperVars, ipcVars, rendererVars, parseInput>>

----------------------------------------------------------------------------
\* Normalization of the captured time and space complexity
\* (generateSolutionsHelper; the two captures are rewritten by the same code)

\* The pieces of a captured complexity: "O(" and ")" of the notation, a term,
\* a dash, the word because, a blank.
ComplexityPieces == {"O(", "n", ")", "-", "because", Space}

\* text.match(/O\([^)]+\)/i): the first "O(" that has at least one piece other
\* than ")" before the next ")".
NotationMatch(t) ==
    LET S == {s \in 1..Len(t) :
                 /\ t[s] = "O("
                 /\ FirstAt(t, s + 1, {")"}) > s + 1}
    IN  IF S = {} THEN NoMatch
        ELSE [found |-> TRUE, start |-> Min(S), end |-> FirstAt(t, Min(S) + 1, {")"})]

\* timeComplexity = timeMatch[1].trim() and the rewriting that follows
NormalizeComplexity(capture) ==
    LET complexity == Trim(capture)
        m == NotationMatch(complexity)
    IN  IF ~m.found
        THEN <<"O(", "n", ")", Space, "-", Space>> \o complexity
        ELSE IF /\ ~Includes(complexity, <<"-">>)
                /\ ~Includes(complexity, <<"because">>)
        THEN LET notation == Sub(complexity, m.start, m.end)
                 rest == Trim(Sub(complexity, 1, m.start - 1)
                                \o Sub(complexity, m.end + 1, Len(complexity)))
             IN  notation \o <<Space, "-", Space>> \o rest
        ELSE complexity

\* Longest captured complexity of the model, in pieces.
MaxCapture == 5

\* The capture group starts after the blanks that follow "Time complexity:".
ComplexityInputs ==
    [kind : {"complexity"},
     text : {t \in TextsUpTo(ComplexityPieces, MaxCapture) :
                t # <<>> /\ Head(t) # Space}]

\* A captured complexity is normalized.
NormalizeCapture ==
    /\ parseInput.kind = "complexity"
    /\ parseResult = Nothing
    /\ parseResult' = [kind |-> "complexity", value |-> NormalizeComplexity(parseInput.text)]
    /\ UNCHANGED <<helperVars, ipcVars, rendererVars, parseInput>>

----------------------------------------------------------------------------
\* The conversation context of the extraction prompt (processScreenshotsHelper)

\* messages.slice(-20)
RecentCap == 20

\* The messages of a conversation (types/conversations.ts); a solution message
\* has a language only when one was attached to it ("" when it has none).
TextMessage(content) == [type |-> "text", content |-> content, language |-> ""]
SolutionMessage(language) == [type |-> "solution", content |-> <<>>, language |-> language]
ScreenshotMessage == [type |-> "screenshot", content |-> <<>>, language |-> ""]

\* const recentMessages = messages.slice(-20)
RecentMessages(messages) ==
    Sub(messages, IF Len(messages) > RecentCap THEN Len(messages) - RecentCap + 1 ELSE 1,
        Len(messages))

\* the callback of recentMessages.map
ContextLine(msg, language) ==
    IF msg.type = "text" THEN <<"User: ">> \o msg.content
    ELSE IF msg.type = "solution"
         THEN <<"Assistant: Generated solution in ",
                IF msg.language # "" THEN msg.language ELSE language>>
    ELSE <<>>

RECURSIVE Join(_, _)
\* Array.prototype.join
Join(lines, separator) ==
    IF lines = <<>> THEN <<>>
    ELSE IF Len(lines) = 1 THEN lines[1]
    ELSE lines[1] \o separator \o Join(Tail(lines), separator)

ContextHeading == "RECENT CONVERSATION CONTEXT:"

\* conversationContext: "" when there are no messages or none gives a line
ConversationContext(messages, language) ==
    LET recentMessages == RecentMessages(messages)
        lines == [i \in 1..Len(recentMessages) |->
                     ContextLine(recentMessages[i], language)]
        joined == Join(SelectSeq(lines, LAMBDA l : l # <<>>), <<Newline, Newline>>)
    IN  IF joined # <<>>
        THEN <<Newline, Newline, ContextHeading, Newline>> \o joined \o <<Newline, Newline>>
        ELSE <<>>

\* The text part of the user message sent to provider p; the instructions are
\* pieces of their own, cut where the code interpolates.
ExtractionPrompt(p, hasImages, messages, language) ==
    LET conversationContext == ConversationContext(messages, language)
        ifAny == IF conversationContext # <<>> THEN <<>> ELSE <<" (if any)">>
    IN  CASE p = "openai" ->
                IF hasImages
                THEN <<"Review these screenshots carefully. [...] fall back to ",
                       language, ".">>
                        \o conversationContext
                        \o <<" \n Return in JSON format with these fields: [...]">>
                ELSE <<"Based on the conversation context provided">> \o ifAny
                        \o <<", extract the coding problem details. Use ", language,
                             " as the programming language [...] \n Return in JSON format with these fields: [...]">>
          [] p = "gemini" ->
                IF hasImages
                THEN <<"Follow these steps: [...] fall back to ", language,
                       ". 4- Return the information in JSON format [...] without any other text.">>
                        \o conversationContext
                ELSE <<"Based on the conversation context provided">> \o ifAny
                        \o <<", extract the coding problem details. Use ", language,
                             " as the programming language [...] without any other text.">>
                        \o conversationContext
          [] p = "anthropic" ->
                IF hasImages
                THEN <<"Follow these steps: [...] fall back to ", language,
                       ". 4- Return in JSON format with these fields: [...]">>
                        \o conversationContext
                ELSE <<"Based on the conversation context provided">> \o ifAny
                        \o <<", extract the coding problem details. Use ", language,
                             " as the programming language [...] Return the information in JSON format with these fields: [...]">>
                        \o conversationContext

\* The conversations of the model: up to MaxHead free messages, then none or a
\* filler of alternating text and screenshot messages about as long as the cap,
\* then up to MaxTail free messages.
MaxHead == 2
MaxTail == 1

MessageKinds ==
    {TextMessage(<<"two sum">>), TextMessage(<<>>), SolutionMessage("go"),
     SolutionMessage(""), ScreenshotMessage}

Filler(n) ==
    [i \in 1..n |-> IF i % 2 = 1 THEN TextMessage(<<"why">>) ELSE ScreenshotMessage]

Conversations ==
    {head \o Filler(n) \o tail :
        head \in TextsUpTo(MessageKinds, MaxHead),
        n \in {0, RecentCap - 1, RecentCap},
        tail \in TextsUpTo(MessageKinds, MaxTail)}

PromptInputs ==
    [kind : {"prompt"}, provider : Providers, hasImages : BOOLEAN,
     messages : Conversations, language : {"python"}]

\* The extraction prompt is built.
BuildPrompt ==
    /\ parseInput.kind = "prompt"
    /\ parseResult = Nothing
    /\ parseResult' =
          [kind |-> "prompt",
           value |-> ExtractionPrompt(parseInput.provider, parseInput.hasImages,
                                      parseInput.messages, parseInput.language)]
    /\ UNCHANGED <<helperVars, ipcVars, rendererVars, parseInput>>

----------------------------------------------------------------------------
\* The pure functions applied to every input of a bounded set: the helper is
\* at rest on an OpenAI configuration and one function is applied to one input.

ParserInputs ==
    ExtractionInputs \cup SolutionInputs \cup ComplexityInputs \cup PromptInputs

ParserInit ==
    /\ HelperInit
    /\ apiProvider = "openai"
    /\ apiKey
    /\ openaiClient
    /\ parseInput \in ParserInputs
    /\ parseResult = Nothing
    /\ IpcReady
    /\ RendererInit

ParserNext ==
    \/ ParseExtraction
    \/ ParseSolution
    \/ NormalizeCapture
    \/ BuildPrompt

ParserSpec == ParserInit /\ [][ParserNext]_vars


----------------------------------------------------------------------------
\* IPC invocations of the "delete-last-screenshot" channel

\* deps.deleteScreenshot(path, conversationId): the object it resolves to, and
\* the queues afterwards (the file leaves them when it was deleted).
DeleteResult(ok) ==
    IF ok THEN [success |-> TRUE, error |-> ""]
    ELSE [success |-> FALSE, error |-> "Failed to delete file"]

DeleteScreenshot(path, ok) ==
    /\ screenshotQueue' =
          IF ok THEN SelectSeq(screenshotQueue, LAMBDA f : f # path)
          ELSE screenshotQueue
    /\ extraScreenshotQueue' =
          IF ok THEN SelectSeq(extraScreenshotQueue, LAMBDA f : f # path)
          ELSE extraScreenshotQueue

\* initializeIpcHandlers(deps), run once when the app starts.
InitializeIpcHandlers ==
    /\ invokeHandlers = {}
    /\ invoked = NotInvoked
    /\ LET all == HandleAll(invokeHandlers, Registrations) IN
       /\ invokeHandlers' = all.handlers
       /\ invoked' = Invocation("initializeIpcHandlers", NoResult, NoResult, <<>>,
                                all.threw)
    /\ UNCHANGED <<helperVars, parseVars, rendererVars>>

\* ipcMain.handle("delete-last-screenshot"); conversationScreenshots: what
\* getConversationScreenshots(conversationId) returns when a conversationId is
\* passed; alive: the main window exists and is not destroyed; ok: the result
\* of the deletion.
DeleteLastScreenshot(hasConversationId, conversationScreenshots, alive, ok) ==
    LET queue == IF hasConversationId THEN conversationScreenshots
                 ELSE IF view = "queue" THEN screenshotQueue
                 ELSE extraScreenshotQueue
        screenshot == queue[Len(queue)]
        result == DeleteResult(ok)
        nested == HandleAll(invokeHandlers, NestedRegistrations)
    IN  /\ "delete-last-screenshot" \in invokeHandlers
        /\ returned = NoCall
        /\ IF queue = <<>>
           THEN /\ invoked' = Invocation("delete-last-screenshot",
                       [success |-> FALSE,
                        error |-> IF hasConversationId
                                  THEN "No screenshots in this conversation"
                                  ELSE "No screenshots to delete"],
                       NoResult, <<>>, "")
                /\ UNCHANGED <<invokeHandlers, queueVars>>
           ELSE /\ DeleteScreenshot(screenshot, ok)
                /\ IF ~alive
                   THEN /\ invoked' = Invocation("delete-last-screenshot", result,
                                                 result, <<>>, "")
                        /\ UNCHANGED invokeHandlers
                   ELSE /\ invokeHandlers' = nested.handlers
                        /\ invoked' = Invocation("delete-last-screenshot",
                               IF nested.threw # ""
                               THEN [success |-> FALSE,
                                     error |-> "Failed to delete last screenshot"]
                               ELSE result,
                               result, <<Event("screenshot-deleted", "")>>,
                               nested.threw)
        /\ UNCHANGED <<configVars, clientVars, view, problemInfo, hasDebugged,
                       handleVars, cycleVars, returned, parseVars, rendererVars>>

\* The screenshots of a conversation, as getConversationScreenshots returns them.
ConversationScreenshots == {<<>>, <<MainFile>>, <<MainFile, ExtraFile>>}

\* The app starts: the helper is constructed, no handler is registered yet; the
\* user may be in either view with screenshots queued when a channel is invoked.
IpcInit ==
    /\ apiProvider \in Providers
    /\ apiKey \in BOOLEAN
    /\ \E throws \in BOOLEAN :
          LET cl == InitializeAIClient(apiProvider, apiKey, throws) IN
          /\ openaiClient = cl.openai
          /\ geminiApiKey = cl.gemini
          /\ anthropicClient = cl.anthropic
    /\ view \in {"queue", "solutions"}
    /\ problemInfo = "null"
    /\ hasDebugged = FALSE
    /\ screenshotQueue \in {<<>>, <<MainFile>>}
    /\ extraScreenshotQueue \in {<<>>, <<ExtraFile>>}
    /\ currentProcessingAbortController = Null
    /\ currentExtraProcessingAbortController = Null
    /\ pc = [c \in Cycles |-> "idle"]
    /\ hasMsgs = [c \in Cycles |-> FALSE]
    /\ callProvider = [c \in Cycles |-> "none"]
    /\ aborted = [c \in Cycles |-> FALSE]
    /\ paths = [c \in Cycles |-> <<>>]
    /\ log = [c \in Cycles |-> <<>>]
    /\ returned = NoCall
    /\ parseInput = Nothing
    /\ parseResult = Nothing
    /\ invokeHandlers = {}
    /\ invoked = NotInvoked
    /\ RendererInit

IpcNext ==
    \/ InitializeIpcHandlers
    \/ \E hasConversationId \in BOOLEAN, shots \in ConversationScreenshots,
          alive \in BOOLEAN, ok \in BOOLEAN :
          DeleteLastScreenshot(hasConversationId, shots, alive, ok)
    \/ TakeScreenshot /\ UNCHANGED otherVars

IpcSpec == IpcInit /\ [][IpcNext]_vars

----------------------------------------------------------------------------
\* The conversation store (src/contexts/conversations.tsx).  The functions of
\* the provider read `state` as it was at the last render; a setState updater
\* is applied to the state left by the updaters queued before it
\* (pendingState), and the next render shows the result.

\* Conversations created in one run, and messages added to one conversation.
MaxConversations == 3
MaxMessages == 1

\* what the store does not touch
outsideStore == <<helperVars, parseVars, ipcVars, navVars>>

Conversation(id, messages, isActive) ==
    [id |-> id, messages |-> messages, isActive |-> isActive]

\* conversations.map(f)
Map(conversations, f(_)) == [i \in DOMAIN conversations |-> f(conversations[i])]

Ids(st) == {st.conversations[i].id : i \in DOMAIN st.conversations}

\* createConversation: the updater it queues.  conversations is
\* state.conversations as the function sees it, newId the id of newConversation.
CreateUpdater(prevState, conversations, newId) ==
    LET newConversation == Conversation(newId, <<>>, TRUE)
        updatedConversations ==
            Map(conversations, LAMBDA conv : [conv EXCEPT !.isActive = FALSE])
        cleanConversations ==
            Map(updatedConversations,
                LAMBDA conv : IF conv.id = prevState.activeConversationId
                              THEN [conv EXCEPT !.messages = <<>>]
                              ELSE conv)
    IN  IF prevState.activeConversationId # Null
        THEN [conversations |-> Append(cleanConversations, newConversation),
              activeConversationId |-> newConversation.id]
        ELSE [conversations |-> Append(updatedConversations, newConversation),
              activeConversationId |-> newConversation.id]

\* deleteConversation: the updater it queues.
DeleteUpdaterKeepingActiveId(prevState, id) ==
    [conversations |-> SelectSeq(prevState.conversations, LAMBDA conv : conv.id # id),
     activeConversationId |-> prevState.activeConversationId]

DeleteUpdater(prevState, id) ==
    LET filteredConversations ==
            SelectSeq(prevState.conversations, LAMBDA conv : conv.id # id)
        newActiveId ==
            IF prevState.activeConversationId = id
            THEN (IF Len(filteredConversations) > 0
                  THEN filteredConversations[1].id ELSE Null)
            ELSE prevState.activeConversationId
    IN  [conversations |-> filteredConversations,
         activeConversationId |-> newActiveId]

\* setActiveConversation: the updater it queues.
ActivateUpdater(prevState, id) ==
    [conversations |->
         Map(prevState.conversations,
             LAMBDA conv : [conv EXCEPT !.isActive = (conv.id = id)]),
     activeConversationId |-> id]

\* addMessage: the updater it queues.
AddMessageUpdater(prevState, conversationId, newMessage) ==
    [prevState EXCEPT !.conversations =
         Map(prevState.conversations,
             LAMBDA conv : IF conv.id = conversationId
                           THEN [conv EXCEPT !.messages = Append(@, newMessage)]
                           ELSE conv)]

CreateConversation ==
    /\ uuid < MaxConversations
    /\ uuid' = uuid + 1
    /\ pendingState' = CreateUpdater(pendingState, state.conversations, uuid + 1)
    /\ UNCHANGED <<state, outsideStore>>

DeleteConversation(id) ==
    /\ pendingState' = DeleteUpdater(pendingState, id)
    /\ UNCHANGED <<state, uuid, outsideStore>>

SetActiveConversation(id) ==
    /\ IF id = state.activeConversationId
       THEN UNCHANGED pendingState
       ELSE pendingState' = ActivateUpdater(pendingState, id)
    /\ UNCHANGED <<state, uuid, outsideStore>>

AddMessage(conversationId) ==
    /\ \A i \in DOMAIN pendingState.conversations :
          pendingState.conversations[i].id = conversationId
             => Len(pendingState.conversations[i].messages) < MaxMessages
    /\ pendingState' = AddMessageUpdater(pendingState, conversationId, "text")
    /\ UNCHANGED <<state, uuid, outsideStore>>

\* React applies the queued updaters and renders the provider again.
Render ==
    /\ pendingState # state
    /\ state' = pendingState
    /\ UNCHANGED <<pendingState, uuid, outsideStore>>

\* The calls of the store: conversations are deleted and messages added by any
\* id handed out so far, a conversation is activated by the id of one in the
\* store (or null).
StoreNext ==
    \/ CreateConversation
    \/ \E id \in 1..uuid : DeleteConversation(id)
    \/ \E id \in Ids(pendingState) \cup {Null} : SetActiveConversation(id)
    \/ \E id \in 1..uuid : AddMessage(id)
    \/ Render

\* The renderer has started; the main process is as ParserInit leaves it.
RendererStart ==
    /\ HelperInit
    /\ apiProvider = "openai"
    /\ apiKey
    /\ openaiClient
    /\ parseInput = Nothing
    /\ parseResult = Nothing
    /\ IpcReady
    /\ RendererInit

StoreSpec == RendererStart /\ [][StoreNext]_vars

----------------------------------------------------------------------------
\* Step navigation of the Solutions page (src/_pages/Solutions.tsx,
\* SolutionSection, and src/components/Solutions/StepNavigation.tsx).  The
\* steps list is modelled by its length.  SolutionSection is mounted while
\* solutionData is set; its state is dropped when it is unmounted and starts
\* again from useState(0) and useState(false).

\* Steps of one solution.
MaxSteps == 8

\* The steps onSolutionSuccess generates for a solution that has none.
LegacySteps == 4

\* what the Solutions page does not touch
outsideNav == <<helperVars, parseVars, ipcVars, storeVars>>

\* SolutionSection is unmounted: the next mount starts from the initial state.
Unmounted ==
    /\ currentStepIndex' = 0
    /\ showCompleteSolution' = FALSE

\* Math.max(0, prev - 1) and Math.min(steps.length - 1, prev + 1); Math.max
\* gives 0 for prev = 0, where prev - 1 is not a natural number.
MaxOf(a, b) == IF a >= b THEN a ELSE b
MinOf(a, b) == IF a <= b THEN a ELSE b
PreviousIndex(prev) == IF prev = 0 THEN 0 ELSE MaxOf(0, prev - 1)
NextIndex(steps, prev) == MinOf(steps - 1, prev + 1)

\* onSolutionStart: setSolutionData(null)
OnSolutionStart ==
    /\ solutionData' = FALSE
    /\ Unmounted
    /\ UNCHANGED <<solutionSteps, outsideNav>>

\* onSolutionSuccess(data): steps is data.steps.length (0: none), hasCode: data.code
\* is not empty.
OnSolutionSuccess(steps, hasCode) ==
    /\ solutionSteps' = IF steps = 0 THEN LegacySteps ELSE steps
    /\ solutionData' = hasCode
    /\ IF hasCode /\ solutionData
       THEN UNCHANGED <<currentStepIndex, showCompleteSolution>>
       ELSE Unmounted
    /\ UNCHANGED outsideNav

\* onResetView: the "solution" query is removed and the cache subscription sets
\* solutionData and solutionSteps to null.
OnResetView ==
    /\ solutionData' = FALSE
    /\ solutionSteps' = 0
    /\ Unmounted
    /\ UNCHANGED outsideNav

\* StepNavigation is rendered, with its buttons, while steps is not empty.
NavigationShown == solutionData /\ solutionSteps > 0

\* The "Previous" button, enabled unless currentStep === 0 or the complete
\* solution is shown.
HandlePreviousStep ==
    /\ NavigationShown
    /\ ~(currentStepIndex = 0 \/ showCompleteSolution)
    /\ currentStepIndex' = PreviousIndex(currentStepIndex)
    /\ UNCHANGED <<solutionData, solutionSteps, showCompleteSolution, outsideNav>>

\* The "Next" button, enabled unless currentStep === totalSteps - 1 or the
\* complete solution is shown.
HandleNextStep ==
    /\ NavigationShown
    /\ ~(currentStepIndex = solutionSteps - 1 \/ showCompleteSolution)
    /\ currentStepIndex' = NextIndex(solutionSteps, currentStepIndex)
    /\ UNCHANGED <<solutionData, solutionSteps, showCompleteSolution, outsideNav>>

\* handleKeyDown, the window's keydown listener while SolutionSection is mounted.
HandleKeyDown(key) ==
    /\ solutionData
    /\ IF solutionSteps > 0 /\ ~showCompleteSolution
       THEN currentStepIndex' =
               IF key = "ArrowLeft" THEN PreviousIndex(currentStepIndex)
               ELSE NextIndex(solutionSteps, currentStepIndex)
       ELSE UNCHANGED currentStepIndex
    /\ UNCHANGED <<solutionData, solutionSteps, showCompleteSolution, outsideNav>>

\* The "View Complete Solution" / "View Steps" button.
ToggleSolutionView ==
    /\ NavigationShown
    /\ showCompleteSolution' = ~showCompleteSolution
    /\ UNCHANGED <<solutionData, solutionSteps, currentStepIndex, outsideNav>>

NavNext ==
    \/ OnSolutionStart
    \/ \E steps \in 0..MaxSteps, hasCode \in BOOLEAN : OnSolutionSuccess(steps, hasCode)
    \/ OnResetView
    \/ HandlePreviousStep
    \/ HandleNextStep
    \/ \E key \in {"ArrowLeft", "ArrowRight"} : HandleKeyDown(key)
    \/ ToggleSolutionView

NavSpec == RendererStart /\ [][NavNext]_vars

----------------------------------------------------------------------------
\* Properties

MainInFlight == {c \in Cycles : pc[c] \in {"reading", "extracting", "generating"}}
ExtraInFlight == {c \in Cycles : pc[c] \in {"xreading", "debugging"}}

Events(lg) == {lg[i].ev : i \in 1..Len(lg)}
CountOf(lg, evs) == Cardinality({i \in 1..Len(lg) : lg[i].ev \in evs})
MainTerminal == {"SOLUTION_SUCCESS", "INITIAL_SOLUTION_ERROR", "API_KEY_INVALID"}
ExtraTerminal == {"DEBUG_SUCCESS", "DEBUG_ERROR"}
FailureEvents == {"INITIAL_SOLUTION_ERROR", "API_KEY_INVALID", "DEBUG_ERROR"}
NoCycleStarted == UNCHANGED <<handleVars, pc, callProvider, log>>

\* C1: cancelOngoingRequests sends nothing when neither handle is set; when at
\* least one is set it aborts the signal of every set handle and sends exactly
\* one NO_SCREENSHOTS, also when both workflows were in flight.
C1_CancelNotifiesOnce ==
    [][CancelOngoingRequests =>
         IF /\ currentProcessingAbortController = Null
            /\ currentExtraProcessingAbortController = Null
         THEN returned'.log = <<>> /\ aborted' = aborted
         ELSE /\ returned'.log = <<Event("NO_SCREENSHOTS", "")>>
              /\ \A c \in Cycles :
                    aborted'[c] = (\/ aborted[c]
                                   \/ c = currentProcessingAbortController
                                   \/ c = currentExtraProcessingAbortController)]_vars

\* cancelOngoingRequests returned after aborting a main and an extra cycle that
\* were both in flight, with one notification.
C1_Witness ==
    /\ returned.op = "cancel"
    /\ Len(returned.log) = 1
    /\ \E c \in MainInFlight : aborted[c]
    /\ \E c \in ExtraInFlight : aborted[c]

\* C2: a cycle whose provider call was aborted mid-flight emits, as its only
\* failure notification, the cancellation message; never API_KEY_INVALID and
\* never a provider failure message.
C2_AbortedCallReportsCancellation ==
    (returned.op \in {"main", "extra"} /\ returned.cause = "cancel") =>
        \A i \in 1..Len(returned.log) :
            returned.log[i].ev \in FailureEvents =>
                /\ returned.log[i].ev # "API_KEY_INVALID"
                /\ returned.log[i].msg = "MsgCanceled"

\* C3: at most one main cycle and at most one extra cycle is in flight at any
\* time.
C3_AtMostOneInFlight ==
    /\ Cardinality(MainInFlight) <= 1
    /\ Cardinality(ExtraInFlight) <= 1

\* C4: a cycle that passed its entry checks has sent exactly one terminal
\* notification when it ends, on every path.
C4_ExactlyOneTerminal ==
    /\ returned.op = "main" => CountOf(returned.log, MainTerminal) = 1
    /\ returned.op = "extra" => CountOf(returned.log, ExtraTerminal) = 1

C7_ProviderValidation ==
    [][/\ \A m \in BOOLEAN, disk \in SUBSET Files :
            (/\ returned = NoCall
             /\ ~ClientOf(CurrentClients, apiProvider)
             /\ ProcessScreenshots(m, disk)) =>
                IF ClientOf(InitializeAIClient(apiProvider, apiKey, FALSE), apiProvider)
                THEN /\ ClientOf(CurrentClients, apiProvider)'
                     /\ returned'.op = "entry" => returned'.reinits = 1
                ELSE /\ returned' = Call("entry", <<Event("API_KEY_INVALID", "")>>,
                                         FALSE, "key", 1)
                     /\ NoCycleStarted
       /\ \A m \in BOOLEAN, disk \in SUBSET Files :
            (~HasApiKey /\ TriggerProcessScreenshots(m, disk)) =>
                /\ returned'.log = <<Event("API_KEY_INVALID", "")>>
                /\ NoCycleStarted]_vars

\* processScreenshots gave up after one re-initialization that left the client
\* of the configured provider unset.
C7_Witness ==
    /\ returned = Call("entry", <<Event("API_KEY_INVALID", "")>>, FALSE, "key", 1)
    /\ ~ClientOf(CurrentClients, apiProvider)

\* C8: after cancelOngoingRequests returns, in flight or not, problemInfo is
\* null, hasDebugged is false and both handle slots are null.
C8_CancelResetsState ==
    returned.op = "cancel" =>
        /\ problemInfo = "null"
        /\ ~hasDebugged
        /\ currentProcessingAbortController = Null
        /\ currentExtraProcessingAbortController = Null

\* cancelOngoingRequests returned after aborting a debug request that was
\* issued against a stored problemInfo.
C8_Witness ==
    /\ returned = Call("cancel", <<Event("NO_SCREENSHOTS", "")>>, TRUE, "", 0)
    /\ \E c \in Cycles : pc[c] = "debugging" /\ aborted[c]
    /\ problemInfo = "null"

\* C9: a main cycle that ends in any failure sets the view to "queue"; the view
\* becomes "solutions" only by a main cycle that ended with SOLUTION_SUCCESS.
C9_ViewFollowsMainOutcome ==
    [][/\ (returned'.op = "main" /\ ~returned'.success) => view' = "queue"
       /\ (view # "solutions" /\ view' = "solutions") =>
             /\ returned'.op = "main"
             /\ returned'.success
             /\ "SOLUTION_SUCCESS" \in Events(returned'.log)]_vars

\* A main cycle started in view "queue" failed after an earlier one had switched
\* the view to "solutions": the view is back at "queue".
C9_Witness ==
    /\ returned.op = "main"
    /\ ~returned.success
    /\ view = "queue"
    /\ extraScreenshotQueue # <<>>

\* C10: a failed main cycle sends API_KEY_INVALID exactly when the failure is
\* about missing or invalid credentials; every other failure is sent as
\* INITIAL_SOLUTION_ERROR.
C10_ApiKeyInvalidIffKeyFailure ==
    (returned.op = "main" /\ ~returned.success) =>
        IF returned.cause = "key"
        THEN "API_KEY_INVALID" \in Events(returned.log)
        ELSE /\ "API_KEY_INVALID" \notin Events(returned.log)
             /\ "INITIAL_SOLUTION_ERROR" \in Events(returned.log)

\* C11: when the Anthropic request of a main cycle fails with HTTP 413 or with
\* a message containing "token", the cycle sends INITIAL_SOLUTION_ERROR with
\* the message that recommends switching provider, and no API_KEY_INVALID.
C11_TooLargeGuidanceReachesUser ==
    [][\A c \in Cycles : \A out \in Outcomes(c) :
          (/\ callProvider[c] = "anthropic"
           /\ out.kind = "error"
           /\ out.status # 429
           /\ out.status = 413 \/ Includes(MsgText(out.message), <<"token">>)
           /\ ExtractResponse(c, out) \/ SolutionResponse(c, out)) =>
             /\ \E i \in 1..Len(returned'.log) :
                   returned'.log[i] = Event("INITIAL_SOLUTION_ERROR", "MsgClaudeTooLarge")
             /\ "API_KEY_INVALID" \notin Events(returned'.log)]_vars

\* The kind of failure a helper's error message tells the user about.
ResultKind(msg) ==
    CASE msg = "MsgInvalidOpenAIKey" -> "key"
      [] msg \in {"MsgOpenAIRateLimit", "MsgClaudeRateLimit"} -> "rate"
      [] msg = "MsgClaudeTooLarge" -> "size"
      [] msg \in {"MsgOpenAIServerError", "MsgGeminiExtractFailed",
                  "MsgGeminiSolutionFailed", "MsgGeminiDebugFailed",
                  "MsgAnthropicExtractFailed", "MsgAnthropicSolutionFailed",
                  "MsgAnthropicDebugFailed"} -> "server"
      [] OTHER -> "unknown"

\* C12: at every stage a failed provider request is mapped by its HTTP status
\* and message: 401 to the auth-error result, 429 to the rate-limit result, 413
\* or a message containing "token" to the payload-too-large result, any other
\* failure status to the server-error result.
C12_FailureMappingAtEveryStage ==
    [][\A c \in Cycles : \A out \in Outcomes(c) :
          (out.kind = "error" /\ ~out.cancel
             /\ (out.status # 0 \/ out.respStatus # 0)) =>
             /\ ExtractResponse(c, out) =>
                   ResultKind(ExtractionResult(callProvider[c], out).error) = Cause(out)
             /\ SolutionResponse(c, out) =>
                   ResultKind(SolutionResult(callProvider[c], out).error) = Cause(out)
             /\ DebugResponse(c, out) =>
                   ResultKind(DebugResult(callProvider[c], out).error) = Cause(out)]_vars

\* Index of the first notification ev in lg, 0 when there is none.
Pos(lg, ev) ==
    IF ev \in Events(lg)
    THEN CHOOSE i \in 1..Len(lg) :
            lg[i].ev = ev /\ \A j \in 1..(i - 1) : lg[j].ev # ev
    ELSE 0

\* C13: in a main cycle INITIAL_START comes first; the step that sends
\* PROBLEM_EXTRACTED has stored problemInfo and issues the solution request
\* under the same abort signal; SOLUTION_SUCCESS is sent only by a cycle whose
\* solution request settled, after its INITIAL_START and PROBLEM_EXTRACTED.
C13_MainOrdering ==
    [][/\ \A c \in Cycles :
            ("PROBLEM_EXTRACTED" \in Events(log'[c]) \ Events(log[c])) =>
                /\ pc[c] = "extracting"
                /\ pc'[c] = "generating"
                /\ problemInfo' \in {"parsed", "synthesized"}
                /\ Pos(log[c], "INITIAL_START") = 1
                /\ aborted'[c] = aborted[c]
       /\ (returned'.op = "main" /\ "PROBLEM_EXTRACTED" \in Events(returned'.log)) =>
             /\ Pos(returned'.log, "INITIAL_START") = 1
             /\ \A c \in Cycles : (pc[c] = "extracting" /\ pc'[c] = "idle") =>
                   problemInfo' \in {"parsed", "synthesized"}
       /\ "SOLUTION_SUCCESS" \in Events(returned'.log) =>
             /\ \E c \in Cycles : pc[c] = "generating" /\ pc'[c] = "idle"
             /\ Pos(returned'.log, "INITIAL_START") = 1
             /\ Pos(returned'.log, "PROBLEM_EXTRACTED") > 1
             /\ Pos(returned'.log, "PROBLEM_EXTRACTED")
                   < Pos(returned'.log, "SOLUTION_SUCCESS")
             /\ Pos(returned'.log, "SOLUTION_SUCCESS") = Len(returned'.log)]_vars

\* A main cycle returned with SOLUTION_SUCCESS after extracting a well-formed
\* problemInfo.
C13_Witness ==
    /\ returned.op = "main"
    /\ "SOLUTION_SUCCESS" \in Events(returned.log)
    /\ "PROBLEM_EXTRACTED" \in Events(returned.log)
    /\ problemInfo = "parsed"

\* C14: when a main cycle ends with SOLUTION_SUCCESS the extra screenshot queue
\* has been cleared; a main cycle that fails leaves the extra queue as it was.
C14_ExtraQueueClearedOnSuccess ==
    [][returned'.op = "main" =>
          IF "SOLUTION_SUCCESS" \in Events(returned'.log)
          THEN extraScreenshotQueue' = <<>>
          ELSE extraScreenshotQueue' = extraScreenshotQueue]_vars

\* A main cycle returned with SOLUTION_SUCCESS and an empty extra queue while a
\* debug cycle still holds the extra screenshot that had been queued.
C14_Witness ==
    /\ returned.op = "main"
    /\ returned.success
    /\ extraScreenshotQueue = <<>>
    /\ \E c \in ExtraInFlight : \E i \in 1..Len(paths[c]) : paths[c][i] = ExtraFile

\* The progress values of the processing-status notifications in lg, in order.
Progress(lg) ==
    LET st == SelectSeq(lg, LAMBDA e : e.ev = "processing-status")
    IN  [i \in 1..Len(st) |-> st[i].progress]

IsPrefix(s, t) == Len(s) <= Len(t) /\ SubSeq(t, 1, Len(s)) = s

MainMilestones == <<20, 40, 60, 100>>

\* C15: the progress values a main cycle sends are an initial part of 20, 40,
\* 60, 100 (increasing, each at most once); 40 is sent only once extraction has
\* succeeded and 100 only by a cycle whose solution generation succeeded.
C15_ProgressMilestones ==
    /\ \A c \in MainInFlight :
          /\ IsPrefix(Progress(log[c]), MainMilestones)
          /\ Len(Progress(log[c])) >= 2 =>
                pc[c] = "generating" /\ "PROBLEM_EXTRACTED" \in Events(log[c])
          /\ Len(Progress(log[c])) < 4
    /\ returned.op = "main" =>
          /\ IsPrefix(Progress(returned.log), MainMilestones)
          /\ Len(Progress(returned.log)) >= 2 =>
                "PROBLEM_EXTRACTED" \in Events(returned.log)
          /\ Len(Progress(returned.log)) = 4 <=> returned.success

\* A main cycle returned after sending all four milestones.
C15_Witness ==
    /\ returned.op = "main"
    /\ Progress(returned.log) = MainMilestones

\* C16: provided every file read and provider request settles, every started
\* cycle ends; when it ends it has sent a terminal notification and the handle
\* slot of its workflow is cleared, on success, on error and on cancellation.
C16_CycleTerminates ==
    /\ \A c \in Cycles : (pc[c] # "idle") ~> (pc[c] = "idle")
    /\ [][\A c \in Cycles :
            (pc[c] # "idle" /\ pc'[c] = "idle") =>
               IF c \in MainInFlight
               THEN /\ returned'.op = "main"
                    /\ Events(returned'.log) \cap MainTerminal # {}
                    /\ currentProcessingAbortController' = Null
               ELSE /\ returned'.op = "extra"
                    /\ Events(returned'.log) \cap ExtraTerminal # {}
                    /\ currentExtraProcessingAbortController' = Null]_vars

\* A debug cycle whose request had been aborted has ended with its failure
\* notification; both handle slots are clear.
C16_Witness ==
    /\ returned.op = "extra"
    /\ returned.cause = "cancel"
    /\ "DEBUG_ERROR" \in Events(returned.log)
    /\ currentExtraProcessingAbortController = Null
    /\ \A c \in Cycles : pc[c] = "idle"

\* Position of a phase in its cycle.
Rank(phase) ==
    CASE phase = "idle" -> 0
      [] phase \in {"reading", "xreading"} -> 1
      [] phase \in {"extracting", "debugging"} -> 2
      [] phase = "generating" -> 3

\* C17: a cycle issues each of its requests at most once: when a request
\* settles, whatever the outcome, the cycle ends or moves on to its next
\* request, and a cycle never returns to a request it has already issued.
C17_NoAutomaticRetry ==
    [][\A c \in Cycles :
          /\ (pc[c] \in {"extracting", "generating", "debugging"}
                /\ \E out \in Outcomes(c) : \/ ExtractResponse(c, out)
                                            \/ SolutionResponse(c, out)
                                            \/ DebugResponse(c, out)) =>
                pc'[c] = "idle" \/ Rank(pc'[c]) > Rank(pc[c])
          /\ (pc[c] # "idle" /\ pc'[c] # pc[c]) =>
                \/ pc'[c] = "idle"
                \/ /\ Rank(pc'[c]) > Rank(pc[c])
                   /\ (c \in MainInFlight) = (pc'[c] \in {"extracting", "generating"})]_vars

\* A main cycle ended on a rate-limit failure of its request: no request is
\* pending afterwards.
C17_Witness ==
    /\ returned.op = "main"
    /\ returned.cause = "rate"
    /\ \A c \in Cycles : pc[c] = "idle"

\* C18: a debug cycle reads the files of the main queue followed by the existing
\* files of the extra queue; the files that cannot be read are dropped and the
\* others, in that order, are what the debug request is given; the cycle fails
\* at loading, with DEBUG_ERROR, exactly when no file could be read.
C18_DebugInput ==
    [][\A c \in Cycles :
          /\ (pc[c] = "idle" /\ pc'[c] = "xreading") =>
                \E disk \in SUBSET Files :
                   /\ SelectSeq(extraScreenshotQueue, LAMBDA f : f \in disk) # <<>>
                   /\ paths'[c] = screenshotQueue
                                    \o SelectSeq(extraScreenshotQueue, LAMBDA f : f \in disk)
          /\ \A readable \in SUBSET Files :
                ExtraReadDone(c, readable) =>
                   LET loaded == SelectSeq(paths[c], LAMBDA f : f \in readable) IN
                   /\ loaded = <<>> =>
                         /\ returned'.cause = "load"
                         /\ returned'.log[Len(returned'.log)]
                               = Event("DEBUG_ERROR", "MsgDebugLoadFailed")
                   /\ loaded # <<>> =>
                         /\ returned'.cause # "load"
                         /\ pc'[c] = "debugging" => paths'[c] = loaded]_vars

\* A debug request is pending that was given the main screenshot followed by
\* the extra screenshot.
C18_Witness ==
    \E c \in Cycles : pc[c] = "debugging" /\ paths[c] = <<MainFile, ExtraFile>>

\* C19: a debug cycle sends DEBUG_START first and ends with DEBUG_SUCCESS when
\* it succeeds, else with DEBUG_ERROR and a message; hasDebugged becomes true
\* only by a debug cycle that succeeds and is false after any cancel.
C19_DebugOutcome ==
    [][/\ returned'.op = "extra" =>
             LET lg == returned'.log IN
             /\ lg[1] = Event("DEBUG_START", "")
             /\ CountOf(lg, ExtraTerminal \cup {"DEBUG_START"}) = 2
             /\ IF returned'.success
                THEN lg[Len(lg)] = Event("DEBUG_SUCCESS", "")
                ELSE /\ lg[Len(lg)].ev = "DEBUG_ERROR"
                     /\ MsgText(lg[Len(lg)].msg) # <<>>
       /\ (hasDebugged' /\ ~hasDebugged) =>
             returned'.op = "extra" /\ returned'.success
       /\ (returned'.op = "extra" /\ returned'.success) => hasDebugged'
       /\ returned'.op \in {"cancel", "reset"} => ~hasDebugged']_vars

\* A debug cycle returned with DEBUG_SUCCESS and hasDebugged is set.
C19_Witness ==
    /\ returned.op = "extra"
    /\ returned.success
    /\ hasDebugged

\* C20 (as stated): after every config-updated event the client of the
\* configured provider is ready exactly when an API key is configured, and the
\* clients of the other two providers are not set.
C20_ClientsFollowConfig ==
    [][(\E p \in Providers, key \in BOOLEAN, throws \in BOOLEAN :
           ConfigUpdated(p, key, throws)) =>
          /\ ClientOf(CurrentClients', apiProvider') = apiKey'
          /\ \A q \in Providers \ {apiProvider'} : ~ClientOf(CurrentClients', q)]_vars

\* C20 (amended): after a config-updated event whose config load succeeds the
\* client of the configured provider is ready exactly when an API key is
\* configured and the other two clients are not set; when loading the config
\* throws, no client is set.
C20_ClientsFollowLoadedConfig ==
    [][\A p \in Providers, key \in BOOLEAN, throws \in BOOLEAN :
          ConfigUpdated(p, key, throws) =>
             IF throws
             THEN CurrentClients' = NoClients
             ELSE /\ ClientOf(CurrentClients', p) = key
                  /\ \A q \in Providers \ {p} : ~ClientOf(CurrentClients', q)]_vars

\* The settings were switched from OpenAI (whose extraction left a synthesized
\* problemInfo) to Anthropic with a key: only the Anthropic client is set.
C20_Witness ==
    /\ problemInfo = "synthesized"
    /\ apiProvider = "anthropic"
    /\ apiKey
    /\ anthropicClient
    /\ ~openaiClient
    /\ ~geminiApiKey

\* C21: for every provider, an extraction response that contains "{" but is
\* not valid JSON does not fail the cycle: a synthesized problemInfo is stored
\* and PROBLEM_EXTRACTED is sent on the way to solution generation.
C21_ParseFailureNeverFails ==
    [][\A c \in Cycles, out \in Responses :
          (out.text = "badjson" /\ ExtractResponse(c, out)) =>
             /\ problemInfo' = "synthesized"
             /\ \/ /\ pc'[c] = "generating"
                   /\ CountOf(log'[c], {"PROBLEM_EXTRACTED"}) = 1
                \/ /\ returned'.op = "main"
                   /\ CountOf(returned'.log, {"PROBLEM_EXTRACTED"}) = 1]_vars

\* The events that announce a result of a cycle.
SuccessEvents == {"PROBLEM_EXTRACTED", "SOLUTION_SUCCESS", "DEBUG_SUCCESS"}

\* C30: a cycle whose controller was aborted by cancelOngoingRequests does
\* nothing more that shows a result: when it resumes, it stores no problemInfo,
\* sends no PROBLEM_EXTRACTED, SOLUTION_SUCCESS or DEBUG_SUCCESS, leaves the
\* extra queue alone and does not set the view to "solutions".
C30_CancelledCycleHasNoEffect ==
    [][\A c \in Cycles :
          (aborted[c] /\ pc'[c] # pc[c]) =>
             LET after == IF pc'[c] = "idle" THEN returned'.log ELSE log'[c] IN
             /\ problemInfo' = problemInfo
             /\ CountOf(after, SuccessEvents) = CountOf(log[c], SuccessEvents)
             /\ extraScreenshotQueue' = extraScreenshotQueue
             /\ view' = "solutions" => view = "solutions"]_vars

\* T between a json fence and a closing fence, each on its own line.
Fenced(t) == <<Fence, "json", Newline>> \o t \o <<Newline, Fence>>

\* C22 (as stated): parsing an extraction response wrapped in a json fence gives the same
\* result as parsing it unwrapped, also when the text is not valid JSON and
\* the problemInfo is synthesized.
C22_FenceIsTransparent ==
    parseResult.kind = "extraction" =>
        ParseProblemInfo(parseInput.provider, Fenced(parseInput.text),
                         parseInput.language)
          = parseResult.value

\* C22 (amended): parsing an extraction response wrapped in a json fence gives
\* the same result as parsing it unwrapped whenever the text is rejected or is
\* valid JSON; when the problemInfo is synthesized, each of the two carries its
\* own raw text, fence included, as problem_statement.
C22_FenceIsTransparentWhenParsed ==
    parseResult.kind = "extraction" =>
        LET text == parseInput.text
            language == parseInput.language
            fenced == ParseProblemInfo(parseInput.provider, Fenced(text), language)
            plain == parseResult.value
        IN  IF plain.success /\ plain.info.kind = "synthesized"
            THEN /\ plain = ParseOk(Synthesized(text, language))
                 /\ fenced = ParseOk(Synthesized(Fenced(text), language))
            ELSE fenced = plain

\* A response that came with a json fence was parsed as JSON.
C22_Witness ==
    /\ parseResult.kind = "extraction"
    /\ Includes(parseInput.text, <<Fence, "json">>)
    /\ parseResult.value.success
    /\ parseResult.value.info.kind = "parsed"

RECURSIVE FencedBlocks(_, _)
\* The fenced code blocks of a text from index `from` on, in order: what stands
\* between a fence and the next fence, without the language tag that follows
\* the opening fence and without the blanks around it.
FencedBlocks(t, from) ==
    LET f == FirstAt(t, from, {Fence})
        g == IF f = 0 THEN 0 ELSE FirstAt(t, f + 1, {Fence})
    IN  IF g = 0 THEN <<>>
        ELSE <<Trim(Sub(t, f + 1 + WordRun(t, f + 1), g - 1))>> \o FencedBlocks(t, g + 1)

\* The segments of the given types.
OfType(segments, types) == SelectSeq(segments, LAMBDA sg : sg.type \in types)

C24_LastStepHasLastFencedBlock ==
    (/\ parseResult.kind = "solution"
     /\ StepMatches(parseInput.text, 1) = <<>>
     /\ FencedBlocks(parseInput.text, 1) # <<>>) =>
        LET steps == parseResult.value.steps
            fenced == FencedBlocks(parseInput.text, 1)
        IN  /\ Len(steps) >= 1
            /\ steps[Len(steps)].code = fenced[Len(fenced)]

\* C25: the steps of a parsed solution are never empty; a text without blocks
\* in the token format and without section headers gives the single step
\* "Complete Solution" / "The solution to the problem." whose code is the first
\* fenced code block, or empty when the text has none.
C25_StepsNeverEmpty ==
    parseResult.kind = "solution" =>
        LET fenced == FencedBlocks(parseInput.text, 1) IN
        /\ parseResult.value.steps # <<>>
        /\ OfType(parseInput.segments, {"block", "heading"}) = <<>> =>
              parseResult.value.steps =
                  <<Step(<<"Complete Solution">>, <<"The solution to the problem.">>,
                         IF fenced # <<>> THEN fenced[1] ELSE <<>>)>>

\* A text of prose and two fenced blocks was parsed into the single default
\* step, which carries the code of the first block.
C25_Witness ==
    /\ parseResult.kind = "solution"
    /\ OfType(parseInput.segments, {"block", "heading"}) = <<>>
    /\ Len(FencedBlocks(parseInput.text, 1)) = 2
    /\ Len(parseResult.value.steps) = 1
    /\ parseResult.value.steps[1].title = <<"Complete Solution">>
    /\ parseResult.value.steps[1].code = <<"a">>

\* C26: the code of a parsed solution is the code of its last step when that
\* is not empty; otherwise it is the first fenced code block of the response,
\* or the whole response when it has no fenced code block.
C26_CodeIsFinalStepCode ==
    parseResult.kind = "solution" =>
        LET steps == parseResult.value.steps
            fenced == FencedBlocks(parseInput.text, 1)
        IN  parseResult.value.code =
                IF steps[Len(steps)].code # <<>> THEN steps[Len(steps)].code
                ELSE IF fenced # <<>> THEN fenced[1]
                ELSE parseInput.text

\* The last step has no code and the text has a fenced block: the code of the
\* solution is that block, not the whole text.
C26_Witness ==
    /\ parseResult.kind = "solution"
    /\ parseResult.value.steps[Len(parseResult.value.steps)].code = <<>>
    /\ FencedBlocks(parseInput.text, 1) # <<>>
    /\ parseResult.value.code = FencedBlocks(parseInput.text, 1)[1]
    /\ parseResult.value.code # <<>>

\* C27: normalizing a complexity is idempotent: normalizing the normalized
\* text again gives the same text.
C27_NormalizationIdempotent ==
    parseResult.kind = "complexity" =>
        NormalizeComplexity(parseResult.value) = parseResult.value

\* The Big-O notation of a text, <<>> when it has none.
Notation(t) ==
    IF NotationMatch(t).found
    THEN Sub(t, NotationMatch(t).start, NotationMatch(t).end) ELSE <<>>

\* C28: a capture without notation becomes "O(n) - " and the capture; a capture
\* with notation that lacks a dash or lacks the word because gets " - " right
\* after its notation; every normalized complexity has its notation followed
\* by a justification.
C28_NormalizationRule ==
    parseResult.kind = "complexity" =>
        LET capture == Trim(parseInput.text)
            result == parseResult.value
            notation == Notation(result)
            after == Sub(result, NotationMatch(result).end + 1, Len(result))
        IN  /\ Notation(capture) = <<>> =>
                  result = <<"O(", "n", ")", Space, "-", Space>> \o capture
            /\ (/\ Notation(capture) # <<>>
                /\ \/ ~Includes(capture, <<"-">>)
                   \/ ~Includes(capture, <<"because">>)) =>
                  Includes(result, Notation(capture) \o <<Space, "-", Space>>)
            /\ notation # <<>>
            /\ \E i \in 1..Len(after) : after[i] \notin {Space, "-"}

RECURSIVE ExpectedLines(_, _)
\* What the messages contribute, one after the other: "User: <content>" for a
\* text message, "Assistant: Generated solution in <language>" for a solution,
\* nothing for any other message; contributions are a blank line apart.
ExpectedLines(messages, language) ==
    IF messages = <<>> THEN <<>>
    ELSE LET msg == Head(messages)
             rest == ExpectedLines(Tail(messages), language)
             line == CASE msg.type = "text" -> <<"User: ">> \o msg.content
                       [] msg.type = "solution" ->
                            <<"Assistant: Generated solution in ",
                              IF msg.language = "" THEN language ELSE msg.language>>
                       [] OTHER -> <<>>
         IN  IF line = <<>> THEN rest
             ELSE IF rest = <<>> THEN line
             ELSE line \o <<Newline, Newline>> \o rest

\* The last n messages.
Last(messages, n) ==
    [i \in 1..(IF Len(messages) < n THEN Len(messages) ELSE n) |->
        messages[Len(messages) - (IF Len(messages) < n THEN Len(messages) ELSE n) + i]]

\* C29: for each of the three providers the extraction prompt carries the
\* conversation context made of the last 20 messages at most, in their order,
\* and no context section when no message contributes a line.
C29_ContextInEveryPrompt ==
    parseResult.kind = "prompt" =>
        LET expected == ExpectedLines(Last(parseInput.messages, 20), parseInput.language) IN
        IF expected = <<>>
        THEN ~Includes(parseResult.value, <<ContextHeading>>)
        ELSE Includes(parseResult.value,
                      <<ContextHeading, Newline>> \o expected \o <<Newline, Newline>>)

\* The cycles awaiting the response of a provider request.
AwaitingMain == {c \in Cycles : pc[c] \in {"extracting", "generating"}}
AwaitingExtra == {c \in Cycles : pc[c] = "debugging"}

\* C31: the completion of a cycle never clears the cancellation handle of
\* another cycle that is still awaiting its provider response: when the slot
\* holds the controller of the waiting cycle before a different cycle returns,
\* it still holds it afterwards.
C31_CompletionKeepsOtherHandle ==
    [][\A c, d \in Cycles :
          (c # d /\ pc[d] # "idle" /\ pc'[d] = "idle") =>
             /\ (c \in AwaitingMain /\ pc'[c] = pc[c]
                   /\ currentProcessingAbortController = c)
                  => currentProcessingAbortController' = c
             /\ (c \in AwaitingExtra /\ pc'[c] = pc[c]
                   /\ currentExtraProcessingAbortController = c)
                  => currentExtraProcessingAbortController' = c]_vars

\* C32: a main cycle that fails during extraction leaves the stored problemInfo
\* as it found it and sends no PROBLEM_EXTRACTED: when the extraction request
\* settles to an outcome the provider branch makes a failure of (an error, a
\* response it cannot parse), and when the helper returns for a missing client
\* before any request is pending.
C32_FailedExtractionKeepsProblemInfo ==
    [][/\ \A c \in Cycles : \A out \in Outcomes(c) :
            (/\ ExtractResponse(c, out)
             /\ ~ExtractionResult(callProvider[c], out).success) =>
                /\ problemInfo' = problemInfo
                /\ returned'.op = "main" /\ ~returned'.success
                /\ "PROBLEM_EXTRACTED" \notin Events(returned'.log)
       /\ (/\ returned'.op = "main" /\ returned'.cause = "key"
           /\ \A c \in AwaitingMain : pc'[c] = pc[c]) =>
                /\ problemInfo' = problemInfo
                /\ "PROBLEM_EXTRACTED" \notin Events(returned'.log)]_vars

\* A main cycle has just failed on its extraction request, or for a missing
\* client, while a problemInfo stored by an earlier cycle is still there.
C32_Witness ==
    /\ returned.op = "main"
    /\ ~returned.success
    /\ returned.cause \in {"parse", "server", "key"}
    /\ "PROBLEM_EXTRACTED" \notin Events(returned.log)
    /\ problemInfo # "null"

\* The last notification of a log.
LastEvent(lg) == lg[Len(lg)]

\* The outcome of an extra cycle that found no problemInfo: no request is issued,
\* the call returns with DEBUG_ERROR "No problem info available" as its last
\* notification, and hasDebugged is not set.
EndsWithNoProblemInfo(c) ==
    /\ pc'[c] = "idle"
    /\ callProvider'[c] = "none"
    /\ returned'.op = "extra" /\ ~returned'.success
    /\ LastEvent(returned'.log) = Event("DEBUG_ERROR", "MsgNoProblemInfo")
    /\ hasDebugged' = hasDebugged

\* C33: an extra cycle that runs while no problemInfo is stored makes no
\* provider call and ends with DEBUG_ERROR "No problem info available", without
\* setting hasDebugged, whatever becomes of its screenshot reads.
C33_NoProblemInfoDebugError ==
    [][\A c \in Cycles :
          (pc[c] = "xreading" /\ pc'[c] # "xreading" /\ problemInfo = "null")
             => EndsWithNoProblemInfo(c)]_vars

\* C33, amended: the same for an extra cycle that could read at least one of
\* its screenshots.
C33_NoProblemInfoDebugErrorAfterRead ==
    [][\A c \in Cycles : \A readable \in SUBSET Files :
          (/\ ExtraReadDone(c, readable)
           /\ SelectSeq(paths[c], LAMBDA f : f \in readable) # <<>>
           /\ problemInfo = "null")
             => EndsWithNoProblemInfo(c)]_vars

\* An extra cycle has just ended for want of a problemInfo.
C33_Witness ==
    /\ returned.op = "extra"
    /\ returned.cause = "state"
    /\ LastEvent(returned.log) = Event("DEBUG_ERROR", "MsgNoProblemInfo")
    /\ problemInfo = "null"
    /\ ~hasDebugged

\* The providers whose client is set.
ClientsSet == {p \in Providers : ClientOf(CurrentClients, p)}

\* C34: in every reachable state at most one of openaiClient, geminiApiKey and
\* anthropicClient is set, and after initializeAIClient ran on a config whose
\* load throws none of them is.
C34_AtMostOneClient ==
    /\ [](Cardinality(ClientsSet) <= 1)
    /\ [][(\E p \in Providers, key \in BOOLEAN : ConfigUpdated(p, key, TRUE))
             => ClientsSet' = {}]_vars

\* The config has a key and a cycle has run, yet no client is set: the last
\* initializeAIClient found loadConfig throwing.
C34_Witness ==
    /\ apiKey
    /\ ClientsSet = {}
    /\ problemInfo # "null"

\* C35: trigger-reset cancels the ongoing requests, clears both screenshot
\* queues, sets the view to "queue" and sends "reset-view" then "reset", in
\* this order: the notification of the cancel, if any, comes first and the
\* signals of the handles that were set are aborted.  When it returns success
\* the view is "queue", both queues are empty, problemInfo is null, hasDebugged
\* is false and both handles are null.
C35_ResetOrderAndState ==
    [][returned'.op = "reset" =>
         /\ returned'.success
         /\ returned'.log =
               (IF handleVars # <<Null, Null>>
                THEN <<Event("NO_SCREENSHOTS", "")>> ELSE <<>>)
                 \o <<Event("reset-view", ""), Event("reset", "")>>
         /\ \A c \in AbortSet : aborted'[c]
         /\ view' = "queue"
         /\ screenshotQueue' = <<>> /\ extraScreenshotQueue' = <<>>
         /\ problemInfo' = "null"
         /\ ~hasDebugged'
         /\ handleVars' = <<Null, Null>>]_vars

\* trigger-reset has just returned after cancelling a cycle in flight: it sent
\* three notifications and the pending cycle's signal is aborted.
C35_Witness ==
    /\ returned.op = "reset"
    /\ Len(returned.log) = 3
    /\ \E c \in Cycles : pc[c] # "idle" /\ aborted[c]
    /\ view = "queue"
    /\ queueVars = <<<<>>, <<>>>>
    /\ problemInfo = "null"

\* C36: no ipcMain.handle call is made for a channel that already has a handler
\* (each channel is registered once, by initializeIpcHandlers), and
\* delete-last-screenshot returns the result of the deletion it performed.
C36_HandlersRegisteredOnce ==
    /\ invoked.threw = ""
    /\ (invoked.channel = "delete-last-screenshot" /\ invoked.deletion # NoResult)
          => invoked.result = invoked.deletion

\* activeConversationId is null or the id of a conversation of the list.
ActiveExists(st) ==
    st.activeConversationId = Null \/ st.activeConversationId \in Ids(st)

\* The id of the first conversation other than id, Null when there is none.
FirstOther(st, id) ==
    LET others == {i \in DOMAIN st.conversations : st.conversations[i].id # id}
    IN  IF others = {} THEN Null ELSE st.conversations[Min(others)].id

\* C37: after any sequence of createConversation, deleteConversation and
\* setActiveConversation (with the id of a conversation of the store, or null)
\* activeConversationId is null or the id of a conversation of the list, in the
\* rendered state and in the state the queued updaters leave; deleting the
\* active conversation makes the first remaining one active (null when none
\* remains) and deleting another one leaves activeConversationId unchanged.
C37_ActiveConversationExists ==
    /\ [](ActiveExists(state) /\ ActiveExists(pendingState))
    /\ [][\A id \in 1..uuid :
             DeleteConversation(id) =>
                pendingState'.activeConversationId =
                   IF pendingState.activeConversationId = id
                   THEN FirstOther(pendingState, id)
                   ELSE pendingState.activeConversationId]_vars

\* Three conversations were created and the first is the active one without
\* having been activated (its isActive flag is off): the active conversation
\* was deleted and the first remaining one took its place.
C37_Witness ==
    /\ uuid = 3
    /\ state = pendingState
    /\ Len(state.conversations) >= 1
    /\ state.activeConversationId = state.conversations[1].id
    /\ ~state.conversations[1].isActive

\* The conversations of a state without their isActive flags.
Contents(st) ==
    [i \in DOMAIN st.conversations |->
        [id |-> st.conversations[i].id, messages |-> st.conversations[i].messages]]

\* C38: createConversation adds exactly one conversation, new, with no messages
\* and active, after the conversations the store held, and leaves each of them
\* and its messages as they were, also when it is called again before the
\* provider has rendered.
C38_CreateAddsOneConversation ==
    [][CreateConversation =>
          /\ Contents(pendingState') =
                Append(Contents(pendingState), [id |-> uuid', messages |-> <<>>])
          /\ uuid' \notin Ids(pendingState)
          /\ pendingState'.activeConversationId = uuid']_vars

\* C39: after any sequence of button presses, arrow keys, toggles of the
\* complete-solution view and replacements of the steps list, the current step
\* index is between 0 and steps.length - 1 whenever steps is not empty, so the
\* displayed step exists; the arrow keys leave the index alone while the
\* complete solution is shown.
C39_StepIndexInRange ==
    /\ []((solutionData /\ solutionSteps > 0)
             => currentStepIndex \in 0..(solutionSteps - 1))
    /\ [][\A key \in {"ArrowLeft", "ArrowRight"} :
             (HandleKeyDown(key) /\ showCompleteSolution)
                => currentStepIndex' = currentStepIndex]_vars

====
